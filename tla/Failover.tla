------------------------------ MODULE Failover ------------------------------
(***************************************************************************)
(* Switching the primary StorageClass of an established constellation.      *)
(*                                                                          *)
(* The user edits spec.primaryStorageClass, failoverType or resync of a     *)
(* VastStorageClassReplication (Kind = "VSCR") or VastVolumeReplication     *)
(* ("VVR").  Its reconciler turns that into spec.replicationState of one    *)
(* VolumeGroupReplication / VolumeReplication per StorageClass (here: a     *)
(* replica), csi-addons into Promote/Demote/ResyncVolume calls of the CSI   *)
(* driver, the driver into role changes of the protected path on VAST.      *)
(*                                                                          *)
(* Nothing is atomic across these layers: every write of the reconciler, a  *)
(* role read by the driver and the call it decides on, are separate steps.  *)
(* csi-addons and VAST are external; what is assumed of them is what the    *)
(* driver's and the controllers' comments and calls rely on.                *)
(***************************************************************************)
EXTENDS Naturals, FiniteSets, FiniteSetsExt

CONSTANTS Kind,          \* "VSCR" or "VVR"
          N,             \* number of StorageClasses
          FailoverTypes, \* failover types the user may ask for
          Patient,       \* does the user wait for a settled, Completed object?
          Repeat,        \* may csi-addons repeat a call that has succeeded?
          MaxSwitches,   \* bound on primary switches
          MaxResyncs,    \* bound on resync requests
          MaxFaults      \* bound on failed or crashed reconciles

SCs == 1..N

ASSUME FailoverConstants ==
  /\ Kind \in {"VSCR", "VVR"}
  /\ N \in Nat \ {0}
  /\ FailoverTypes \subseteq {"graceful", "ungraceful"}
  /\ Patient \in BOOLEAN /\ Repeat \in BOOLEAN
  /\ MaxSwitches \in Nat /\ MaxResyncs \in Nat /\ MaxFaults \in Nat

VARIABLES
  want, mode, resync,  \* spec.primaryStorageClass, spec.failoverType, spec.resync
  cur, sync,           \* status.currentPrimaryStorageClass, status.syncStatus
  queued,              \* is the CR in the workqueue?
  spec, st,            \* per replica: spec.replicationState and status.state
  role,                \* per cluster: role of the protected path on VAST
  call, done,          \* csi-addons, per replica: call in flight; spec acted on
  pc,                  \* reconcile worker: control point
  want0, changed,      \* what it read: primary; primaryChanged
  demote,              \* confirmed primaries it has found, later those to demote
  ask,                 \* those of them whose role it has still to read
  err,                 \* its error
  switches, resyncs, faults

crVars == <<want, mode, resync, cur, sync>>
repVars == <<spec, st>>
csiVars == <<call, done>>
worker == <<pc, want0, changed, demote, ask, err>>
bounds == <<switches, resyncs, faults>>
vars == <<crVars, queued, repVars, role, csiVars, worker, bounds>>

Ops == {"primary", "secondary", "resync"}
\* An error is of the network, retryable (a state of VAST that passes), or neither.
Errors == {"network", "transient", "permanent"}
Roles == {"source", "destination", "standalone", "transition"}
NoCall == [op |-> "none", role |-> "none"]

TypeOK ==
  /\ want \in SCs /\ cur \in SCs /\ want0 \in SCs
  /\ mode \in FailoverTypes
  /\ sync \in {"Completed", "InProgress", "Unreachable", "Failed"}
  /\ {resync, queued, changed} \subseteq BOOLEAN
  /\ spec \in [SCs -> Ops]
  /\ st \in [SCs -> {"primary", "secondary"}]
  /\ role \in [SCs -> Roles]
  /\ call \in [SCs -> [op : Ops, role : Roles] \cup {NoCall}]
  /\ done \in [SCs -> Ops]
  /\ pc \in {"idle", "ppath", "ensure", "sync", "roles", "demote", "resync", "clear", "finish"}
  /\ demote \subseteq SCs /\ ask \subseteq demote /\ (pc # "roles" => ask = {})
  /\ err \in Errors \cup {"none"}
  /\ switches \in 0..MaxSwitches
  /\ resyncs \in 0..MaxResyncs
  /\ faults \in 0..MaxFaults

\* An established constellation at rest, with StorageClass 1 as its primary.
Init ==
  /\ want = 1 /\ cur = 1 /\ want0 = 1
  /\ mode \in FailoverTypes
  /\ resync = FALSE /\ sync = "Completed" /\ queued = FALSE
  /\ spec = [s \in SCs |-> IF s = 1 THEN "primary" ELSE "secondary"]
  /\ st = spec /\ done = spec
  /\ role = [s \in SCs |-> IF s = 1 THEN "source" ELSE "destination"]
  /\ call = [s \in SCs |-> NoCall]
  /\ pc = "idle" /\ changed = FALSE /\ demote = {} /\ ask = {} /\ err = "none"
  /\ switches = 0 /\ resyncs = 0 /\ faults = 0

\* IsVRConfirmedPrimary / IsVGRConfirmedPrimary.
ConfirmedPrimary(s) == spec[s] = "primary" /\ st[s] = "primary"
Candidates == {s \in SCs : ConfirmedPrimary(s)}

\* Mutant: the parent does not watch its replicas' states.
NotifiesParent_Never == FALSE

\* ownedVRPredicate / ownedVGRPredicate: an update of a replica enqueues the
\* parent only when it enters the confirmed-primary state.
NotifiesParent == ~(Candidates' \subseteq Candidates)

------------------------------------------------------------------------------
(* The user: vcsi failover, vcsi sync, or kubectl edit.                      *)

\* Nothing left to do for the controller or csi-addons, and reported Completed.
AtRest ==
  /\ ~queued /\ pc = "idle" /\ sync = "Completed"
  /\ \A s \in SCs : call[s] = NoCall /\ done[s] = spec[s]

\* For() carries no predicate: any change of the CR enqueues it.
UserEdits ==
  /\ Patient => AtRest
  /\ queued' = TRUE
  /\ UNCHANGED <<cur, sync, repVars, role, csiVars, pc, want0, changed, demote, ask, err, faults>>

\* NewFailoverCommand: validateFailoverPrimary refuses the current primary.
SwitchPrimary(s, m) ==
  /\ switches < MaxSwitches
  /\ s # want
  /\ want' = s
  /\ mode' = m
  /\ switches' = switches + 1
  /\ UserEdits
  /\ UNCHANGED <<resync, resyncs>>

RequestResync ==
  /\ resyncs < MaxResyncs
  /\ resync' = TRUE
  /\ resyncs' = resyncs + 1
  /\ UserEdits
  /\ UNCHANGED <<want, mode, switches>>

------------------------------------------------------------------------------
(* The reconciler.                                                           *)

\* Reconcile reads the CR; ensurePrimaryStorageClass records the switch in the
\* status, and that write enqueues the CR again.  Resync takes its own branch.
StartReconcile ==
  /\ pc = "idle" /\ queued
  /\ want0' = want
  /\ changed' = (cur # want)
  /\ cur' = want
  /\ queued' = changed'
  /\ err' = "none"
  /\ pc' = IF resync THEN "resync" ELSE "ppath"
  /\ UNCHANGED <<want, mode, resync, sync, repVars, role, csiVars, demote, ask, bounds>>

workerKeeps == <<want, mode, resync, cur, sync, queued, role, csiVars, want0,
                 changed, err, bounds>>

\* ensureResync, first half.  The VSCR also touches the VRCs, which is not
\* visible here.
PatchResync ==
  /\ pc = "resync"
  /\ spec' = [spec EXCEPT ![want0] = "resync"]
  /\ pc' = "clear"
  /\ UNCHANGED <<workerKeeps, st, demote, ask>>

\* ensureResync, second half: PatchVSCRResync / PatchVVRResync.  The update
\* enqueues the CR; Reconcile returns without looking at the replicas.
ClearResync ==
  /\ pc = "clear"
  /\ resync' = FALSE
  /\ queued' = TRUE
  /\ pc' = "finish"
  /\ UNCHANGED <<want, mode, cur, sync, repVars, role, csiVars, want0, changed, demote, ask,
                 err, bounds>>

\* IsPpathActive on the new primary's cluster holds; if not, see FailStep.
PpathActive ==
  /\ pc = "ppath"
  /\ pc' = "ensure"
  /\ UNCHANGED <<workerKeeps, repVars, demote, ask>>

\* Mutant: an existing replica is never promoted.
EnsuredState_CreateOnly(s, desired) == IF desired = "primary" THEN spec[s] ELSE desired

\* ensureReplicationState: the VVR's does not let a promotion override a resync
\* unless this very cycle saw the primary change.
EnsuredState(s, desired) ==
  IF /\ Kind = "VVR" /\ desired = "primary"
     /\ spec[s] = "resync" /\ ~changed
  THEN spec[s]
  ELSE desired

\* ensureVGR / ensureVR: only the primary's replica is driven.
EnsureReplicas ==
  /\ pc = "ensure"
  /\ spec' = [spec EXCEPT ![want0] = EnsuredState(want0, "primary")]
  /\ pc' = "sync"
  /\ st' = st
  /\ queued' = (queued \/ NotifiesParent)
  /\ UNCHANGED <<want, mode, resync, cur, sync, role, csiVars, want0, changed, demote, ask,
                 err, bounds>>

\* Mutant: the first candidate is kept.
Disputed_KeepFirst == IF Candidates = {} THEN {} ELSE Candidates \ {Min(Candidates)}

\* syncVGRReplicationStates keeps the wanted primary; syncVRReplicationStates looks
\* closer when there are several candidates.
Disputed ==
  IF Kind = "VSCR" THEN Candidates \ {want0}
  ELSE IF Cardinality(Candidates) <= 1 THEN {} ELSE Candidates

\* Mutant: the VVR follows the spec, as the VSCR does.
SyncStates_ByWant ==
  /\ pc = "sync"
  /\ demote' = Candidates \ {want0} /\ ask' = {}
  /\ pc' = IF demote' = {} THEN "finish" ELSE "demote"
  /\ UNCHANGED <<workerKeeps, repVars>>
SyncStates ==
  /\ pc = "sync"
  /\ demote' = Disputed
  /\ ask' = IF Kind = "VVR" THEN Disputed ELSE {}
  /\ pc' = IF Disputed = {} THEN "finish" ELSE IF Kind = "VVR" THEN "roles" ELSE "demote"
  /\ UNCHANGED <<workerKeeps, repVars>>

\* The VVR asks one cluster after the other for its role.  The first source is kept;
\* without one nobody is demoted.
ReadRole ==
  LET s == Min(ask)
      source == role[s] = "source"
  IN /\ pc = "roles"
     /\ demote' = IF source THEN demote \ {s} ELSE IF ask = {s} THEN {} ELSE demote
     /\ ask' = IF source THEN {} ELSE ask \ {s}
     /\ pc' = IF source THEN "demote" ELSE IF ask = {s} THEN "finish" ELSE "roles"
     /\ UNCHANGED <<workerKeeps, repVars>>

DemoteReplica(s) ==
  /\ pc = "demote" /\ s \in demote
  /\ spec' = [spec EXCEPT ![s] = EnsuredState(s, "secondary")]
  /\ demote' = demote \ {s}
  /\ pc' = IF demote = {s} THEN "finish" ELSE "demote"
  /\ UNCHANGED <<workerKeeps, st, ask>>

\* reconcileSyncStatus: a conflict is retried with the same status, and a change
\* enqueues the CR.  A failed reconcile is retried, whatever its error.  (Invalid
\* is for a CR without its finalizer, see module Admission.)
Finish ==
  LET desired == CASE err = "network" -> "Unreachable"
                   [] err = "permanent" -> "Failed"
                   [] OTHER -> IF st[want0] = "primary" THEN "Completed" ELSE "InProgress"
  IN /\ pc = "finish"
     /\ sync' = desired
     /\ queued' = (queued \/ sync' # sync \/ err # "none")
     /\ pc' = "idle"
     /\ UNCHANGED <<want, mode, resync, cur, repVars, role, csiVars, want0, changed, demote, ask,
                    err, bounds>>

\* Errors are collected (DeferredError).  One of the network decides what is made
\* of them, then a retryable one.
Fails(e) ==
  /\ faults < MaxFaults
  /\ faults' = faults + 1
  /\ err' = IF "network" \in {err, e} THEN "network"
            ELSE IF "transient" \in {err, e} THEN "transient" ELSE "permanent"
  /\ UNCHANGED <<crVars, queued, repVars, role, csiVars, want0, changed, switches, resyncs>>

\* The path is not active, a resync cannot be written, or the states or roles cannot
\* be read: the remaining steps are skipped, the status is still written.
FailStep(e) ==
  /\ Fails(e)
  /\ pc \in {"ppath", "resync", "clear", "sync", "roles"}
  /\ pc' = "finish"
  /\ demote' = {} /\ ask' = {}

\* The wanted replica cannot be written: the others are demoted nevertheless.
EnsureFails(e) ==
  /\ Fails(e)
  /\ pc = "ensure"
  /\ pc' = "sync"
  /\ UNCHANGED <<demote, ask>>

\* One demotion fails, and the others are carried out.
DemoteFails(s, e) ==
  /\ Fails(e)
  /\ pc = "demote" /\ s \in demote
  /\ demote' = demote \ {s}
  /\ pc' = IF demote = {s} THEN "finish" ELSE "demote"
  /\ UNCHANGED ask

\* The controller restarts; its informer replays every CR.
Crash ==
  /\ pc # "idle"
  /\ faults < MaxFaults
  /\ faults' = faults + 1
  /\ pc' = "idle"
  /\ demote' = {} /\ ask' = {}
  /\ queued' = TRUE
  /\ UNCHANGED <<crVars, repVars, role, csiVars, want0, changed, err,
                 switches, resyncs>>

------------------------------------------------------------------------------
(* csi-addons and the driver.                                                *)

driverKeeps == <<crVars, worker, bounds>>

\* csi-addons acts on a spec it has not acted on yet, or repeats itself; the
\* driver's handler begins by reading the role (resource_locked: one at a time).
CallDriver(s) ==
  /\ call[s] = NoCall
  /\ Repeat \/ done[s] # spec[s]
  /\ call' = [call EXCEPT ![s] = [op |-> spec[s], role |-> role[s]]]
  /\ UNCHANGED <<driverKeeps, queued, repVars, role, done>>

Sources == {s \in SCs : role[s] = "source"}

\* protectedpaths.failover and force_failover, as their docstrings put it: a
\* graceful failover settles later; an ungraceful one severs both sides; a
\* forced one promotes this side alone.
StartFailover(s, graceful) ==
  IF graceful
  THEN [role EXCEPT ![s] = "transition"]
  ELSE [x \in SCs |-> IF x = s \/ x \in Sources THEN "standalone" ELSE role[x]]

\* Mutant: success without looking at the role reached.
PromoteVolume_NoCheck(s) ==
  /\ call[s].op = "primary"
  /\ role' = IF call[s].role = "destination" THEN StartFailover(s, mode = "graceful") ELSE role
  /\ st' = [st EXCEPT ![s] = "primary"]
  /\ done' = [done EXCEPT ![s] = "primary"]
  /\ call' = [call EXCEPT ![s] = NoCall]
  /\ spec' = spec
  /\ queued' = (queued \/ NotifiesParent)
  /\ UNCHANGED driverKeeps

\* Mutant: a detached path is not forced to source.
PromoteVolume_NoForce(s) ==
  LET ok == call[s].role = "source"
  IN /\ call[s].op = "primary"
     /\ role' = IF call[s].role = "destination"
                THEN StartFailover(s, mode = "graceful") ELSE role
     /\ st' = IF ok THEN [st EXCEPT ![s] = "primary"] ELSE st
     /\ done' = IF ok THEN [done EXCEPT ![s] = "primary"] ELSE done
     /\ call' = [call EXCEPT ![s] = NoCall]
     /\ spec' = spec
     /\ queued' = (queued \/ NotifiesParent)
     /\ UNCHANGED driverKeeps

\* PromoteVolume decides on the role it read and asks VAST for the change.  It
\* succeeds only when that role was already source; in every other case it
\* raises ABORTED and csi-addons calls again.
PromoteVolume(s) ==
  LET graceful == mode = "graceful"
      seen == call[s].role
  IN /\ call[s].op = "primary"
     /\ role' = CASE seen = "destination" -> StartFailover(s, graceful)
                  [] seen = "standalone" /\ ~graceful -> [role EXCEPT ![s] = "source"]
                  [] OTHER -> role
     /\ st' = IF seen = "source" THEN [st EXCEPT ![s] = "primary"] ELSE st
     /\ done' = IF seen = "source" THEN [done EXCEPT ![s] = "primary"] ELSE done
     /\ call' = [call EXCEPT ![s] = NoCall]
     /\ spec' = spec
     /\ queued' = (queued \/ NotifiesParent)
     /\ UNCHANGED driverKeeps

\* DemoteVolume changes no role: it waits for the path and enables it.
DemoteVolume(s) ==
  /\ call[s].op = "secondary"
  /\ st' = [st EXCEPT ![s] = "secondary"]
  /\ done' = [done EXCEPT ![s] = "secondary"]
  /\ call' = [call EXCEPT ![s] = NoCall]
  /\ UNCHANGED <<driverKeeps, queued, spec, role>>

\* Mutant: the state reported for a resync is the spec's own word.
ResyncVolume_RawState(s) ==
  /\ call[s].op = "resync"
  /\ st' = [st EXCEPT ![s] = "resync"]
  /\ done' = [done EXCEPT ![s] = "resync"]
  /\ call' = [call EXCEPT ![s] = NoCall]
  /\ UNCHANGED <<driverKeeps, queued, spec, role>>

\* ResyncVolume: ABORTED in transition, replicate_now on a source, and a
\* successful no-op elsewhere.  csi-addons reports a resync as Secondary.
ResyncVolume(s) ==
  LET served == call[s].role # "transition"
  IN /\ call[s].op = "resync"
     /\ st' = IF served THEN [st EXCEPT ![s] = "secondary"] ELSE st
     /\ done' = IF served THEN [done EXCEPT ![s] = "resync"] ELSE done
     /\ call' = [call EXCEPT ![s] = NoCall]
     /\ UNCHANGED <<driverKeeps, queued, spec, role>>

\* VAST completes a graceful failover: the other side becomes the destination.
SettleFailover(s) ==
  /\ role[s] = "transition"
  /\ role' = [x \in SCs |-> IF x = s THEN "source"
                            ELSE IF x \in Sources THEN "destination" ELSE role[x]]
  /\ UNCHANGED <<driverKeeps, queued, repVars, csiVars>>

\* VAST may re-attach a detached side to the source; nothing in the code asks
\* for it, so it is never relied upon.
Reattach(s) ==
  /\ role[s] = "standalone"
  /\ Sources # {}
  /\ role' = [role EXCEPT ![s] = "destination"]
  /\ UNCHANGED <<driverKeeps, queued, repVars, csiVars>>

------------------------------------------------------------------------------
Reconcile ==
  \/ StartReconcile \/ PatchResync \/ ClearResync
  \/ PpathActive \/ EnsureReplicas \/ SyncStates \/ ReadRole
  \/ \E s \in SCs : DemoteReplica(s)
  \/ Finish

Answer(s) == PromoteVolume(s) \/ DemoteVolume(s) \/ ResyncVolume(s)

Next ==
  \/ \E s \in SCs, m \in FailoverTypes : SwitchPrimary(s, m)
  \/ RequestResync
  \/ Reconcile
  \/ \E e \in Errors : \/ FailStep(e) \/ EnsureFails(e)
                        \/ \E s \in SCs : DemoteFails(s, e)
  \/ Crash
  \/ \E s \in SCs : CallDriver(s) \/ Answer(s) \/ SettleFailover(s) \/ Reattach(s)

\* A queued CR is reconciled and a reconcile runs on (workqueue, one worker per
\* object); csi-addons retries until a call succeeds; VAST completes a failover
\* it has begun.
Fairness ==
  /\ WF_vars(Reconcile)
  /\ \A s \in SCs : /\ WF_vars(CallDriver(s))
                    /\ WF_vars(Answer(s))
                    /\ WF_vars(SettleFailover(s))

Spec == Init /\ [][Next]_vars
FairSpec == Spec /\ Fairness

------------------------------------------------------------------------------
\* A detached path under the graceful type: PromoteVolume calls nothing and
\* answers ABORTED for as long as VAST leaves the path detached.
GracefulOnDetached == mode = "graceful" /\ role[want] = "standalone"

\* The primary the user settles on becomes the source on VAST and stays it,
\* through ABORTED rounds, controller failures and roles read too early.
FailoverCompletes == <>[](role[want] = "source" \/ GracefulOnDetached)

\* While a replica is being made secondary, some other cluster is the source, or
\* this one is not: the controller never demotes the only source.
DemotionLeavesSource ==
  [][\A s \in SCs : (spec[s] # "secondary" /\ spec'[s] = "secondary" /\ role[s] = "source")
       => Sources # {s}]_vars

\* Two confirmed primaries do not last: the controller, woken by the second
\* confirmation, demotes all but one.
SplitBrainResolved ==
  (Cardinality(Candidates) > 1) ~> (Cardinality(Candidates) <= 1)

\* "all others get replicationState=secondary": once the user settles, only the
\* wanted primary's replica asks csi-addons for promotion.
OthersSecondary ==
  <>[]((\A s \in SCs \ {want} : spec[s] = "secondary") \/ GracefulOnDetached)

\* At rest a Completed status is true: the wanted cluster is the source, and no two
\* replicas are confirmed primaries.
CompletedIsTrue ==
  (AtRest /\ cur = want) => role[want] = "source" /\ Cardinality(Candidates) <= 1

\* A promotion acts on the role it has read, possibly long ago, and a failover takes
\* the source role away from whoever has it.  Yet the wanted cluster, once it is the
\* source, stays it until the user asks for another.
WantedStaysSource ==
  [][role[want] = "source" /\ want' = want => role'[want] = "source"]_vars
=============================================================================
