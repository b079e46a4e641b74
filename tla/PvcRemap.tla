------------------------------ MODULE PvcRemap ------------------------------
(***************************************************************************)
(* PVCRemapReconciler: after a failover of a VSCR or a VVR with             *)
(* spec.pvcRemap, workloads that use a PVC of the group are patched to use  *)
(* its sibling in the StorageClass that is now primary.                     *)
(*                                                                          *)
(* One group of sibling PVCs is modelled: the source PVC in StorageClass    *)
(* Home and its managed mirror in every other one; a claim is named by its  *)
(* StorageClass.  Nothing polls: a remap runs when an event of a VGR or VR  *)
(* gets past confirmedPrimaryTransitionPredicate, it reads the parent, the  *)
(* object, the PVCs and the pods one after the other, and it never asks to  *)
(* be run again once it has a table.  Meanwhile primaries move, csi-addons  *)
(* confirms them, and workload controllers replace pods.                    *)
(***************************************************************************)
EXTENDS Naturals, FiniteSets

CONSTANTS SCs,          \* StorageClasses of the topology
          Home,         \* the StorageClass of the source PVC
          Workloads,    \* owners of pods, or pods without an owner
          Standalone,   \* pods nobody owns, or whose owner has no such volume
          Kinds,        \* of the parent: subset of {"VSCR", "VVR"}
          MaxFailovers, \* bound on changes of spec.primaryStorageClass
          MaxFaults     \* bound on failed calls, evictions and restarts

ASSUME PvcRemapConstants ==
  /\ Home \in SCs
  /\ Standalone \subseteq Workloads
  /\ Kinds \subseteq {"VSCR", "VVR"}
  /\ MaxFailovers \in Nat /\ MaxFaults \in Nat

NoSC == "no StorageClass"

VARIABLES
  kind,      \* VSCR or VVR
  live,      \* the parent has pvcRemap set and is not being deleted
  primary,   \* spec.primaryStorageClass of the parent
  want,      \* spec.replicationState of the VGR or VR of an SC is primary
  state,     \* its status.state is primary
  role,      \* the SC whose cluster is the source in VAST
  listed,    \* does the VGR of an SC list the sibling of that SC?
  claim,     \* the claim in the pod template of a workload
  cached,    \* the same, in the controller's cache
  pods,      \* the claims its running pods use
  driving,   \* the primary the parent's reconcile works for, or NoSC
  unheard,   \* has nothing called for a remap since the primary moved to an SC that
             \* was confirmed already?
  queued,    \* is a request for the parent in the work queue?
  pc, target, table, seen, \* worker: control point, the primary it read,
                           \* claims to be replaced, workloads it has to patch
  missed,    \* did the last remap pass over the workload?
  failovers, faults

parent == <<kind, live, primary, unheard, failovers>>
objects == <<want, state, role, listed, driving>>
running == <<claim, cached, pods>>
worker == <<pc, target, table, seen>>
vars == <<parent, objects, running, queued, worker, missed, faults>>

TypeOK ==
  /\ kind \in Kinds /\ live \in BOOLEAN /\ primary \in SCs
  /\ want \in [SCs -> BOOLEAN] /\ state \in [SCs -> BOOLEAN]
  /\ role \in SCs /\ listed \subseteq SCs
  /\ claim \in [Workloads -> SCs] /\ cached \in [Workloads -> SCs]
  /\ pods \in [Workloads -> SUBSET SCs]
  /\ driving \in SCs \cup {NoSC} /\ unheard \in BOOLEAN
  /\ queued \in BOOLEAN
  /\ pc \in {"idle", "table", "pods", "patch"}
  /\ target \in SCs /\ table \subseteq SCs /\ seen \subseteq Workloads
  /\ missed \in [Workloads -> BOOLEAN]
  /\ failovers \in 0..MaxFailovers /\ faults \in 0..MaxFaults

Init ==
  /\ kind \in Kinds /\ live = TRUE /\ primary = Home
  /\ want = [s \in SCs |-> s = Home] /\ state = [s \in SCs |-> s = Home]
  /\ role = Home
  /\ listed = IF kind = "VSCR" THEN {Home} ELSE {}
  /\ claim = [w \in Workloads |-> Home] /\ cached = claim
  /\ pods = [w \in Workloads |-> {Home}]
  /\ driving = NoSC /\ unheard = FALSE
  /\ queued = TRUE
  /\ pc = "idle" /\ target = Home /\ table = {} /\ seen = {}
  /\ missed = [w \in Workloads |-> FALSE]
  /\ failovers = 0 /\ faults = 0

Fault == faults < MaxFaults /\ faults' = faults + 1

-----------------------------------------------------------------------------
(* Events.                                                                   *)

IsConfirmed(s) == want[s] /\ state[s]

\* confirmedPrimaryTransitionPredicate, for a step that changes the objects: one
\* becomes confirmed primary, or the list of a confirmed VGR changes.  The
\* request names the parent, whichever object it came from.
\* (Mutant: the list is not looked at.)
MutantTriggers == \E s \in SCs : ~IsConfirmed(s) /\ IsConfirmed(s)'
Triggers ==
  \E s \in SCs : /\ IsConfirmed(s)'
                 /\ ~IsConfirmed(s) \/ (s \in listed) # (s \in listed')
Enqueue == queued' = (queued \/ Triggers) /\ unheard' = (unheard /\ ~Triggers)

-----------------------------------------------------------------------------
(* The user, the replication controllers, csi-addons and Kubernetes.         *)

\* No transition announces a primary that is confirmed already, because it was not
\* demoted yet: unless a request waits, or the worker was there last, nobody does.
Failover(s) ==
  /\ live /\ s # primary /\ failovers < MaxFailovers
  /\ primary' = s /\ failovers' = failovers + 1
  /\ unheard' = (IsConfirmed(s) /\ ~queued /\ target # s)
  /\ UNCHANGED <<kind, live, objects, running, queued, worker, missed, faults>>

DeleteParent ==
  /\ live /\ live' = FALSE
  /\ UNCHANGED <<kind, primary, unheard, failovers, objects, running, queued, worker,
                 missed, faults>>

\* The objects the reconcile of primary p demotes when their states are w.
ToDemote(w, p) ==
  LET candidates == {s \in SCs : w[s] /\ state[s]}
  IN CASE kind = "VSCR" -> candidates \ {p}
       [] kind = "VVR" /\ role \in candidates -> candidates \ {role}
       [] OTHER -> {}

\* A reconcile of the parent first has ensureVGR or ensureVR make the object of
\* the primary primary (one that would change nothing is left out) ...
EnsureState ==
  LET w == [want EXCEPT ![primary] = TRUE]
  IN /\ driving = NoSC /\ (w # want \/ ToDemote(w, primary) # {})
     /\ want' = w /\ driving' = primary
     /\ UNCHANGED <<kind, live, primary, failovers, state, role, listed, running, worker,
                    missed, faults>>
     /\ Enqueue

\* ... and then syncVGRReplicationStates or syncVRReplicationStates demote the
\* others that are confirmed; in a VVR the source in VAST stays, whichever it is.
SyncStates ==
  /\ driving # NoSC
  /\ want' = [s \in SCs |-> want[s] /\ s \notin ToDemote(want, driving)]
  /\ driving' = NoSC
  /\ UNCHANGED <<kind, live, primary, failovers, state, role, listed, running, worker,
                 missed, faults>>
  /\ Enqueue

SyncFails ==
  /\ driving # NoSC /\ Fault
  /\ driving' = NoSC
  /\ UNCHANGED <<parent, want, state, role, listed, running, queued, worker, missed>>

\* csi-addons promotes or demotes a volume and reports its state.
Confirm(s) ==
  /\ state[s] # want[s]
  /\ state' = [state EXCEPT ![s] = want[s]]
  /\ role' = IF want[s] THEN s ELSE role
  /\ UNCHANGED <<kind, live, primary, failovers, want, listed, driving, running, worker,
                 missed, faults>>
  /\ Enqueue

\* csi-addons lists the sibling of s, a PVC that exists and is bound by then.
ListSibling(s) ==
  /\ kind = "VSCR" /\ s \notin listed
  /\ listed' = listed \cup {s}
  /\ UNCHANGED <<kind, live, primary, failovers, want, state, role, driving, running,
                 worker, missed, faults>>
  /\ Enqueue

\* The controller's copy of an owner lags behind: its own patch comes back to it as an
\* event.
SyncOwner(w) ==
  /\ cached[w] # claim[w]
  /\ cached' = [cached EXCEPT ![w] = claim[w]]
  /\ UNCHANGED <<parent, objects, claim, pods, queued, worker, missed, faults>>

\* The workload controller starts a pod from the template, and stops the pods of
\* an older template; with the Recreate strategy, or when scaled down and up
\* again, there are none in between.
StartPod(w) ==
  /\ claim[w] \notin pods[w]
  /\ pods' = [pods EXCEPT ![w] = @ \cup {claim[w]}]
  /\ UNCHANGED <<parent, objects, claim, cached, queued, worker, missed, faults>>

StopPods(w) ==
  /\ pods[w] \ {claim[w]} # {}
  /\ pods' = [pods EXCEPT ![w] = @ \cap {claim[w]}]
  /\ UNCHANGED <<parent, objects, claim, cached, queued, worker, missed, faults>>

Evict(w) ==
  /\ pods[w] # {} /\ Fault
  /\ pods' = [pods EXCEPT ![w] = {}]
  /\ UNCHANGED <<parent, objects, claim, cached, queued, worker, missed>>

-----------------------------------------------------------------------------
(* The worker.                                                               *)

\* reconcileVSCR, reconcileVVR: nothing to do unless the object of the primary is
\* confirmed.  The list of a VGR is read with it, and one without the sibling gives
\* an empty table.
ReadParent ==
  /\ pc = "idle" /\ queued
  /\ queued' = FALSE
  /\ pc' = IF live /\ IsConfirmed(primary) /\ (kind = "VSCR" => primary \in listed)
           THEN "table" ELSE "idle"
  /\ target' = primary
  /\ UNCHANGED <<parent, objects, running, table, seen, missed, faults>>

\* buildSiblingRemapTable: the managed mirrors of the source, and the source when
\* the primary PVC is itself a mirror.  The PVCs come from the list of the VGR
\* or, for a VVR, are the mirror in the primary SC, else the source.
\* (Mutant: the source is forgotten.)
MutantSiblings(s) == SCs \ {s, Home}
Siblings(s) == (SCs \ {s, Home}) \cup ({Home} \ {s})

BuildTable ==
  /\ pc = "table"
  /\ table' = Siblings(target)
  /\ pc' = IF table' = {} THEN "idle" ELSE "pods"
  /\ UNCHANGED <<parent, objects, running, queued, target, seen, missed, faults>>

\* remapPodsInNamespace: the workloads of the pods whose volumes need a remap; a
\* workload that has no such pod now is not looked at.
ListPods ==
  /\ pc = "pods"
  /\ seen' = {w \in Workloads : pods[w] \cap table # {}}
  /\ missed' = [w \in Workloads |-> w \notin seen' /\ claim[w] \in table]
  /\ pc' = IF seen' = {} THEN "idle" ELSE "patch"
  /\ UNCHANGED <<parent, objects, running, queued, target, table, faults>>

Patched(w) ==
  /\ seen' = seen \ {w}
  /\ pc' = IF seen' = {} THEN "idle" ELSE "patch"

\* topLevelOwner and patchOwnerVolumes, once per owner.  Pods without an owner, and
\* owners without such a volume in their template, are left alone; so is one whose
\* template in the cache is older than a patch of this controller.
PatchOwner(w) ==
  /\ pc = "patch" /\ w \in seen /\ Patched(w)
  /\ claim' = IF w \notin Standalone /\ cached[w] \in table
              THEN [claim EXCEPT ![w] = target] ELSE claim
  /\ missed' = [missed EXCEPT ![w] = claim'[w] \in table]
  /\ UNCHANGED <<parent, objects, cached, pods, queued, target, table, faults>>

\* The owner cannot be read or patched: logged, and the loop goes on.
PatchFails(w) ==
  /\ pc = "patch" /\ w \in seen /\ Patched(w) /\ Fault
  /\ missed' = [missed EXCEPT ![w] = TRUE]
  /\ UNCHANGED <<parent, objects, running, queued, target, table>>

\* An error before the loop is returned, and the request is queued again.
Abort ==
  /\ pc \in {"table", "pods"} /\ Fault
  /\ pc' = "idle" /\ queued' = TRUE
  /\ UNCHANGED <<parent, objects, running, target, table, seen, missed>>

\* Restart: Create events of the objects that are confirmed primary.
Crash ==
  /\ Fault
  /\ pc' = "idle" /\ seen' = {} /\ table' = {}
  /\ driving' = NoSC
  /\ queued' = \E s \in SCs : IsConfirmed(s)
  /\ unheard' = (unheard /\ ~queued')
  /\ UNCHANGED <<kind, live, primary, failovers, want, state, role, listed, running,
                 target, missed>>

-----------------------------------------------------------------------------
Work ==
  \/ ReadParent \/ BuildTable \/ ListPods
  \/ \E w \in Workloads : PatchOwner(w)

Environment ==
  \/ EnsureState \/ SyncStates
  \/ \E s \in SCs : Confirm(s) \/ ListSibling(s)
  \/ \E w \in Workloads : SyncOwner(w) \/ StartPod(w) \/ StopPods(w)

Next ==
  \/ Work \/ Environment
  \/ SyncFails \/ Abort \/ Crash \/ DeleteParent
  \/ \E s \in SCs : Failover(s)
  \/ \E w \in Workloads : PatchFails(w) \/ Evict(w)

Spec == Init /\ [][Next]_vars

\* The work queue hands out requests; the replication controllers, csi-addons and
\* the workload controllers do their work in the end.  A promotion takes place even
\* if ensureVR and syncVRReplicationStates change the state to and fro meanwhile,
\* since every change queues the VR in csi-addons again: strong fairness.
FairSpec ==
  /\ Spec
  /\ WF_vars(Work)
  /\ WF_vars(EnsureState) /\ WF_vars(SyncStates)
  /\ \A s \in SCs : SF_vars(Confirm(s)) /\ WF_vars(ListSibling(s))
  /\ \A w \in Workloads : /\ WF_vars(SyncOwner(w))
                            /\ WF_vars(StartPod(w)) /\ WF_vars(StopPods(w))

-----------------------------------------------------------------------------
(* Properties.                                                               *)

\* The failover is over and no remap is under way or waiting to be run.
Settled ==
  /\ live /\ IsConfirmed(primary) /\ role = primary
  /\ kind = "VSCR" => primary \in listed
  /\ pc = "idle" /\ ~queued

\* "A pod using ANY sibling PVC is always patched to the current primary
\* regardless of which direction the failover went": although a remap may work
\* from a table that a second failover has made stale, and events only come from
\* transitions, no settled state has a workload on a sibling, unless the last
\* remap saw none of its pods, could not patch it or took it from a cache without its
\* own former patch, or a failback was faster than the demotion, so that there was no transition, and a request before it had been
\* used up by a remap for another primary or by one that found none.
SettledIsRemapped ==
  Settled /\ ~unheard => \A w \in Workloads \ Standalone : missed[w] \/ claim[w] = primary

\* Once the failovers are over, the pods themselves end up on the primary's PVC.
PodsConverge ==
  <>[](\/ ~live \/ unheard
       \/ \A w \in Workloads \ Standalone : missed[w] \/ pods[w] = {primary})
=============================================================================
