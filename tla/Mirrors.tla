------------------------------ MODULE Mirrors ------------------------------
(***************************************************************************)
(* How the PVCs of the primary StorageClass of a VastStorageClassReplication *)
(* get their mirrors on the other StorageClasses (spec.syncPVCPV set), and    *)
(* how the mirrors go away again:                                             *)
(*                                                                            *)
(*  - csi-addons lists the PVCs a VGR selects in the VGR's status;            *)
(*  - the object worker of the VGR (reconcileVGR) copies the list to the spec *)
(*    of the VRC and, for the primary, touches the VRCs of the secondaries;   *)
(*  - the content worker of a VRC (provisionResources, ProvisionVolumes)      *)
(*    gathers the sources of all VRCs, creates the backend objects on its own *)
(*    cluster, creates the mirrors that are missing and removes the orphans.  *)
(*                                                                            *)
(* Nothing polls: a VRC is reconciled when an event gets past                 *)
(* VastReplicationContentPredicate, or again after an error.  Deleting the    *)
(* VSCR is module Constellation, moving the primary is module Failover.       *)
(***************************************************************************)
EXTENDS Naturals, Sequences, FiniteSets

CONSTANTS SCs,        \* the StorageClasses of the topology
          Primary,    \* spec.primaryStorageClass
          Vols,       \* names of the PVCs users may create in the primary SC
          Kinds,      \* provisioner types: subset of {"file", "block"}
          Policies,   \* spec.destVolReclaimPolicy: subset of {"Retain", "Delete"}
          MaxFaults   \* bound on failed calls, lost triggers and restarts

ASSUME MirrorsConstants ==
  /\ Primary \in SCs
  /\ SCs \cap Vols = {}
  /\ Kinds \subseteq {"file", "block"}
  /\ Policies \subseteq {"Retain", "Delete"}
  /\ MaxFaults \in Nat

Secondaries == SCs \ {Primary}

\* A PVC is named by where it comes from: <<v>> is the user's PVC, and
\* Append(id, s) the mirror of PVC id in StorageClass s, whose name FormatPVCName
\* derives from the two.  Mirrors of mirrors are cut off at MaxDepth.
MaxDepth == 3
Sources == {<<v>> : v \in Vols}
FirstMirrors == {<<v, s>> : v \in Vols, s \in Secondaries}
SecondMirrors == {Append(m, s) : m \in FirstMirrors, s \in SCs}
PVCs == Sources \cup FirstMirrors \cup {m \in SecondMirrors : m[2] # m[3]}

MirrorOf(id, s) == Append(id, s)
SourceOf(id) == SubSeq(id, 1, Len(id) - 1)
SCOf(id) == IF Len(id) = 1 THEN Primary ELSE id[Len(id)]
VolOf(id) == id[1]   \* the volume handle: replication preserves the path

VARIABLES
  kind, policy,  \* the provisioner type and reclaim policy of this VSCR
  pvc,      \* state of every PVC: unbound; free = bound, no managed-by label;
            \* managed; deleting = managed, deletionTimestamp set; gone for good
  obj,      \* per cluster: volumes that have a view and quota, or block volume
  dir,      \* per cluster: volumes whose directory exists (is replicated)
  listed,   \* status.persistentVolumeClaimsRefList of the VGR of an SC
  spec,     \* spec.pvcs of the VRC of an SC
  stamp,    \* was mirror-sync-requested-at of the VRC set in this very second?
  oq, cq,   \* is the VGR, the VRC in its work queue?
  opc, cpc, \* object workers and content workers
  plan,     \* content worker: the source PVCs it gathered
  err,      \* content worker: has it deferred an error?
  lost,     \* was a trigger lost, or a sync skipped, without a retry?
  faults

cluster == <<kind, policy, pvc, obj, dir>>
objects == <<listed, spec, stamp>>
worker == <<cpc, plan, err>>
vars == <<cluster, objects, oq, cq, opc, worker, lost, faults>>

TypeOK ==
  /\ kind \in Kinds /\ policy \in Policies
  /\ pvc \in [PVCs -> {"absent", "unbound", "free", "managed", "deleting", "gone"}]
  /\ obj \in [SCs -> SUBSET Vols] /\ dir \in [SCs -> SUBSET Vols]
  /\ listed \in [SCs -> SUBSET PVCs] /\ spec \in [SCs -> SUBSET PVCs]
  /\ stamp \in [Secondaries -> BOOLEAN]
  /\ oq \in [SCs -> BOOLEAN] /\ cq \in [SCs -> BOOLEAN]
  /\ opc \in {"idle", "touch"}
  /\ cpc \in [SCs -> {"idle", "objects", "mirrors", "orphans"}]
  /\ plan \in [SCs -> SUBSET PVCs]
  /\ err \in [SCs -> BOOLEAN]
  /\ lost \in BOOLEAN /\ faults \in 0..MaxFaults

Init ==
  /\ kind \in Kinds /\ policy \in Policies
  /\ pvc = [id \in PVCs |-> "absent"]
  /\ obj = [s \in SCs |-> {}] /\ dir = [s \in SCs |-> {}]
  /\ listed = [s \in SCs |-> {}] /\ spec = [s \in SCs |-> {}]
  /\ stamp = [s \in Secondaries |-> FALSE]
  /\ oq = [s \in SCs |-> FALSE]
  /\ cq = [s \in SCs |-> TRUE]         \* Create events of new VRCs
  /\ opc = "idle"
  /\ cpc = [s \in SCs |-> "idle"]
  /\ plan = [s \in SCs |-> {}]
  /\ err = [s \in SCs |-> FALSE]
  /\ lost = FALSE /\ faults = 0

Fault == faults < MaxFaults /\ faults' = faults + 1

-----------------------------------------------------------------------------
(* Users, Kubernetes, csi-addons and VAST.                                   *)

\* A PVC of the primary SC; the webhook PVCLabelInjector labels it with its SC.
CreatePVC(v) ==
  /\ pvc[<<v>>] = "absent"
  /\ pvc' = [pvc EXCEPT ![<<v>>] = "unbound"]
  /\ UNCHANGED <<kind, policy, obj, dir, objects, oq, cq, opc, worker, lost, faults>>

\* The CSI driver provisions the volume, and Kubernetes binds the PVC.
Bind(v) ==
  /\ pvc[<<v>>] = "unbound"
  /\ pvc' = [pvc EXCEPT ![<<v>>] = "free"]
  /\ obj' = [obj EXCEPT ![Primary] = @ \cup {v}]
  /\ dir' = [dir EXCEPT ![Primary] = @ \cup {v}]
  /\ UNCHANGED <<kind, policy, objects, oq, cq, opc, worker, lost, faults>>

\* The user deletes the PVC, and its volume goes with it.  The name is not
\* used again.
DeletePVC(v) ==
  /\ pvc[<<v>>] \in {"unbound", "free"}
  /\ pvc' = [pvc EXCEPT ![<<v>>] = "gone"]
  /\ obj' = [obj EXCEPT ![Primary] = @ \ {v}]
  /\ dir' = [dir EXCEPT ![Primary] = @ \ {v}]
  /\ UNCHANGED <<kind, policy, objects, oq, cq, opc, worker, lost, faults>>

\* Replication brings the directory to another cluster.
Replicate(v, s) ==
  /\ v \in dir[Primary] /\ v \notin dir[s]
  /\ dir' = [dir EXCEPT ![s] = @ \cup {v}]
  /\ UNCHANGED <<kind, policy, pvc, obj, objects, oq, cq, opc, worker, lost, faults>>

\* A deleted mirror PVC goes, its PV is reclaimed and the CSI driver deletes
\* the volume.
Reap(id) ==
  /\ pvc[id] = "deleting"
  /\ pvc' = [pvc EXCEPT ![id] = "absent"]
  /\ obj' = [obj EXCEPT ![SCOf(id)] = @ \ {VolOf(id)}]
  /\ UNCHANGED <<kind, policy, dir, objects, oq, cq, opc, worker, lost, faults>>

\* The VGR selects the PVCs that carry the label of its StorageClass: the
\* users', and the mirrors for as long as they are managed.
Selected(s) ==
  {id \in PVCs : /\ SCOf(id) = s
                 /\ \/ id \in Sources /\ pvc[id] \in {"unbound", "free"}
                    \/ pvc[id] \in {"managed", "deleting"}}

\* volumeGroupReplicationPredicate: a changed list always enqueues the VGR.
ListPVCs(s) ==
  /\ listed[s] # Selected(s)
  /\ listed' = [listed EXCEPT ![s] = Selected(s)]
  /\ oq' = [oq EXCEPT ![s] = TRUE]
  /\ UNCHANGED <<cluster, spec, stamp, cq, opc, worker, lost, faults>>

\* The timestamp of a touch has a resolution of one second (RFC3339).
Tick ==
  /\ \E s \in Secondaries : stamp[s]
  /\ stamp' = [s \in Secondaries |-> FALSE]
  /\ UNCHANGED <<cluster, listed, spec, oq, cq, opc, worker, lost, faults>>

-----------------------------------------------------------------------------
(* Object workers: reconcileVGR of a live VGR whose VRC exists.               *)

\* The same without a touch of the secondaries (a mutant).
SyncVRCPVCs_NoTouch(s) ==
  /\ oq[s] /\ (s = Primary => opc = "idle")
  /\ oq' = [oq EXCEPT ![s] = FALSE]
  /\ spec' = [spec EXCEPT ![s] = listed[s]]
  /\ cq' = [cq EXCEPT ![s] = @ \/ spec[s] # listed[s]]
  /\ UNCHANGED <<cluster, listed, stamp, opc, worker, lost, faults>>

\* syncVRCPVCs and PatchVastReplicationContentSpec; a changed spec is a new
\* generation, which passes the VRC predicate.  A list that changes between the
\* read and the patch enqueues the VGR again.
SyncVRCPVCs(s) ==
  /\ oq[s] /\ (s = Primary => opc = "idle")
  /\ oq' = [oq EXCEPT ![s] = FALSE]
  /\ IF spec[s] = listed[s]
       THEN UNCHANGED <<spec, cq, opc>>
       ELSE /\ spec' = [spec EXCEPT ![s] = listed[s]]
            /\ cq' = [cq EXCEPT ![s] = TRUE]
            /\ opc' = IF s = Primary THEN "touch" ELSE opc
  /\ UNCHANGED <<cluster, listed, stamp, worker, lost, faults>>

\* TouchSecondaryVRCs.  A VRC that was touched in the same second already gets
\* the value it has, which is no update: no event.
TouchSecondaryVRCs ==
  /\ opc = "touch"
  /\ opc' = "idle"
  /\ stamp' = [s \in Secondaries |-> TRUE]
  /\ cq' = [s \in SCs |-> cq[s] \/ (s # Primary /\ ~stamp[s])]
  /\ lost' = (lost \/ \E s \in Secondaries : ~cq'[s])
  /\ UNCHANGED <<cluster, listed, spec, oq, worker, faults>>

\* A touch fails; the ones before it are done.  The reconcile is retried, but
\* then finds the list unchanged and does not touch again.
TouchFails ==
  /\ opc = "touch" /\ Fault
  /\ opc' = "idle"
  /\ oq' = [oq EXCEPT ![Primary] = TRUE]
  /\ \E done \in SUBSET Secondaries :
        /\ done # Secondaries
        /\ stamp' = [s \in Secondaries |-> stamp[s] \/ s \in done]
        /\ cq' = [s \in SCs |-> cq[s] \/ (s \in done /\ ~stamp[s])]
  /\ lost' = (lost \/ \E s \in Secondaries : ~cq'[s])
  /\ UNCHANGED <<cluster, listed, spec, worker>>

-----------------------------------------------------------------------------
(* Content workers: provisionResources of a live VRC whose VGR is live.       *)

\* An error, deferred or not, puts the VRC back into the queue.
Retry(s) == /\ cpc' = [cpc EXCEPT ![s] = "idle"]
            /\ cq' = [cq EXCEPT ![s] = TRUE]

Constellation == UNION {spec[s] : s \in SCs}

\* Mutant: without the guard.
Unmanaged_NoGuard == {id \in Constellation : pvc[id] \in {"free", "managed"}}

\* The anti-recursion guard: controller-managed mirrors are skipped, and so are
\* PVCs that do not exist any more.
Unmanaged == {id \in Constellation : pvc[id] = "free"}

\* Reconcile takes the VRC, copies its list to the status (syncProvisionMeta) and
\* classifies: one PVC of any VRC that is not bound ends the reconcile.
ClassifyConstellationPVCs(s) ==
  /\ cpc[s] = "idle" /\ cq[s]
  /\ IF \E id \in Constellation : pvc[id] = "unbound"
       THEN Retry(s) /\ UNCHANGED <<plan, err>>
       ELSE /\ plan' = [plan EXCEPT ![s] = Unmanaged]
            /\ cpc' = [cpc EXCEPT ![s] = "objects"]
            /\ cq' = [cq EXCEPT ![s] = FALSE]
            /\ err' = [err EXCEPT ![s] = FALSE]
  /\ UNCHANGED <<cluster, objects, oq, opc, lost, faults>>

\* The volumes ProvisionVolumeCb has to see to: BlockProvisioner leaves those of
\* a replication destination to VAST.
ToProvision(s) ==
  IF kind = "block" /\ s # Primary THEN {} ELSE {VolOf(id) : id \in plan[s]} \ obj[s]

\* ensureView does not create a directory; a block volume needs none.
Creatable(s) == IF kind = "file" THEN ToProvision(s) \cap dir[s] ELSE ToProvision(s)

\* ProvisionVolumeCb; what it deletes it finds through managed mirrors, and only
\* if there are none (syncPVCPV not set).  A view that has to wait for its
\* directory is an error, and an error ends ProvisionVolumes.
ProvisionVolumeCb(s) ==
  /\ cpc[s] = "objects"
  /\ obj' = [obj EXCEPT ![s] = @ \cup Creatable(s)]
  /\ IF Creatable(s) = ToProvision(s)
       THEN cpc' = [cpc EXCEPT ![s] = "mirrors"] /\ UNCHANGED cq
       ELSE Retry(s)
  /\ UNCHANGED <<kind, policy, pvc, dir, objects, oq, opc, plan, err, lost, faults>>

\* The sources this VRC mirrors: those of the other StorageClasses.
OtherPairs(s) == {id \in plan[s] : SCOf(id) # s}

\* EnsurePV and EnsurePVC: a PVC of that name that exists in any state is left as
\* it is.  A new mirror names its PV and is bound at once.
Missing(s) ==
  {id \in PVCs : /\ \E src \in OtherPairs(s) : id = MirrorOf(src, s)
                 /\ pvc[id] = "absent"}

\* ensureReplicaMirrors.
EnsureReplicaMirrors(s) ==
  /\ cpc[s] = "mirrors"
  /\ pvc' = [id \in PVCs |-> IF id \in Missing(s) THEN "managed" ELSE pvc[id]]
  /\ cpc' = [cpc EXCEPT ![s] = "orphans"]
  /\ UNCHANGED <<kind, policy, obj, dir, objects, oq, cq, opc, plan, err, lost, faults>>

\* Checking or creating some of them fails: the error is deferred.
EnsureFails(s) ==
  /\ cpc[s] = "mirrors" /\ Fault
  /\ \E done \in SUBSET Missing(s) :
        pvc' = [id \in PVCs |-> IF id \in done THEN "managed" ELSE pvc[id]]
  /\ err' = [err EXCEPT ![s] = TRUE]
  /\ cpc' = [cpc EXCEPT ![s] = "orphans"]
  /\ UNCHANGED <<kind, policy, obj, dir, objects, oq, cq, opc, plan, lost>>

\* hasVolume cannot reach the cluster: the mirrors are skipped, with a warning
\* and without an error.  The file provisioner has listed the views before.
ClusterUnreachable(s) ==
  /\ cpc[s] = "mirrors" /\ Fault
  /\ kind = "block" /\ s # Primary /\ OtherPairs(s) # {}
  /\ cpc' = [cpc EXCEPT ![s] = "orphans"]
  /\ lost' = (lost \/ Missing(s) # {})
  /\ UNCHANGED <<cluster, objects, oq, cq, opc, plan, err>>

\* Mutant: no names to keep.
Orphans_KeepNone(s) == {id \in PVCs \ Sources : SCOf(id) = s /\ pvc[id] = "managed"}

\* The mirrors in s whose source is not among those of the other SCs.
Orphans(s) ==
  {id \in PVCs \ Sources : /\ SCOf(id) = s
                           /\ pvc[id] = "managed"
                           /\ SourceOf(id) \notin OtherPairs(s)}

\* Retain strips the labels off a mirror, Delete deletes it.
Released == IF policy = "Retain" THEN "free" ELSE "deleting"

\* cleanReplicaMirrorOrphans, and the end of the reconcile.
CleanReplicaMirrorOrphans(s) ==
  /\ cpc[s] = "orphans"
  /\ pvc' = [id \in PVCs |-> IF id \in Orphans(s) THEN Released ELSE pvc[id]]
  /\ IF err[s] THEN Retry(s)
               ELSE cpc' = [cpc EXCEPT ![s] = "idle"] /\ UNCHANGED cq
  /\ plan' = [plan EXCEPT ![s] = {}]
  /\ UNCHANGED <<kind, policy, obj, dir, objects, oq, opc, err, lost, faults>>

CleanFails(s) ==
  /\ cpc[s] = "orphans" /\ Fault
  /\ \E done \in SUBSET Orphans(s) :
        pvc' = [id \in PVCs |-> IF id \in done THEN Released ELSE pvc[id]]
  /\ Retry(s)
  /\ plan' = [plan EXCEPT ![s] = {}]
  /\ UNCHANGED <<kind, policy, obj, dir, objects, oq, opc, err, lost>>

\* Any other call of a content worker fails.
AbortContent(s) ==
  /\ cpc[s] = "objects" /\ Fault
  /\ Retry(s)
  /\ plan' = [plan EXCEPT ![s] = {}]
  /\ UNCHANGED <<cluster, objects, oq, opc, err, lost>>

\* The controller restarts: every object comes back as a Create event.
Crash ==
  /\ Fault
  /\ oq' = [s \in SCs |-> TRUE] /\ cq' = [s \in SCs |-> TRUE]
  /\ opc' = "idle"
  /\ cpc' = [s \in SCs |-> "idle"]
  /\ plan' = [s \in SCs |-> {}]
  /\ err' = [s \in SCs |-> FALSE]
  /\ UNCHANGED <<cluster, objects, lost>>

-----------------------------------------------------------------------------

Users == \E v \in Vols : CreatePVC(v) \/ DeletePVC(v)

Platform ==
  \/ \E v \in Vols : Bind(v) \/ \E s \in Secondaries : Replicate(v, s)
  \/ \E id \in PVCs : Reap(id)
  \/ \E s \in SCs : ListPVCs(s)

ObjectStep(s) == SyncVRCPVCs(s) \/ (s = Primary /\ TouchSecondaryVRCs)

ContentStep(s) ==
  \/ ClassifyConstellationPVCs(s) \/ ProvisionVolumeCb(s)
  \/ EnsureReplicaMirrors(s) \/ CleanReplicaMirrorOrphans(s)

Faults ==
  \/ TouchFails \/ Crash
  \/ \E s \in SCs : EnsureFails(s) \/ ClusterUnreachable(s) \/ CleanFails(s) \/ AbortContent(s)

Next == Users \/ Platform \/ Tick \/ (\E s \in SCs : ObjectStep(s) \/ ContentStep(s)) \/ Faults

\* Queued objects are reconciled; PVCs are bound, volumes replicated and lists
\* kept by components that do not stop for good.
Fairness ==
  /\ WF_vars(Tick)
  /\ \A s \in SCs : WF_vars(ObjectStep(s)) /\ WF_vars(ContentStep(s)) /\ WF_vars(ListPVCs(s))
  /\ \A v \in Vols : WF_vars(Bind(v)) /\ \A s \in Secondaries : WF_vars(Replicate(v, s))
  /\ \A id \in PVCs : WF_vars(Reap(id))

Spec == Init /\ [][Next]_vars /\ Fairness

-----------------------------------------------------------------------------
(* Properties.                                                               *)

\* cleanReplicaMirrorOrphans takes a mirror away only after its source PVC is
\* gone: no stale list, unbound PVC, failed call or restart makes the mirror of
\* a live PVC (and with it the replica of its data) an orphan.
MirrorOutlivesSource ==
  [][\A m \in FirstMirrors :
        pvc[m] = "managed" /\ pvc'[m] # "managed" => pvc[SourceOf(m)] = "gone"]_vars

\* The anti-recursion guard of classifyConstellationPVCs, with either policy: a mirror is
\* mirrored in turn only when the PVC of the user is gone.  The guard looks at a label
\* that Retain takes off while the VRC still lists the mirror, so "never" would be too
\* much to ask; but as long as the source is there no stale list, unbound PVC, failed call
\* or restart has the label taken off.
RecursionOnlyAfterLoss ==
  \A id \in PVCs : Len(id) = MaxDepth /\ pvc[id] # "absent" => pvc[<<VolOf(id)>>] = "gone"

\* Every secondary VRC ends up with exactly the mirrors of the live source PVCs,
\* although it only hears of their changes through touches: whatever the order
\* of events, retries and restarts, unless a trigger or a sync was lost.
MirrorsConverge ==
  <>[](\/ lost
       \/ \A m \in FirstMirrors : pvc[m] = "managed" <=> pvc[SourceOf(m)] = "free")
=============================================================================
