------------------------------ MODULE Teardown ------------------------------
(***************************************************************************)
(* What a replication leaves on the VAST clusters, and how it is removed.   *)
(* Each cluster has one VastReplicationContent (VRC) and one worker for it.  *)
(* While the VRC is live a volume appears for every PVC of the primary: a   *)
(* pass creates it when the PVCs are file volumes, VAST replicates it when  *)
(* they are block volumes (spec.syncPVCPV is off: no mirror PVC owns them). *)
(* When the replication is deleted each worker removes the protected path,  *)
(* the snapshots and the volumes of its own cluster, and finds the names of *)
(* the volumes in the VRC of the primary, which has to be there still.      *)
(* Module Constellation has the life of the VRCs themselves; module Mirrors *)
(* has the clusters with mirror PVCs.                                       *)
(*                                                                          *)
(* The worker of the parent (a VVR or VSCR) starts the deletion, waits for   *)
(* the VRCs, and then deletes the protection policies in one attempt whose  *)
(* errors are only logged.                                                  *)
(***************************************************************************)
EXTENDS Naturals

CONSTANTS Clusters,  \* one VRC each
          Primary,   \* the cluster whose VRC lists the source PVCs
          PVCs,      \* PVCs that may be created on it
          MaxFaults  \* bound on failed calls and restarts

ASSUME TeardownConstants == Primary \in Clusters /\ MaxFaults \in Nat

VARIABLES
  kind,     \* are the PVCs file or block volumes?
  pvc,      \* each PVC of the primary
  listed,   \* spec.pvcs of the VRC of the primary
  known,    \* history: the block PVCs it listed when the parent was deleted
  retain,   \* spec.destVolReclaimPolicy of the parent
  vr,       \* does the VR or VGR of the cluster exist?
  vrc,      \* its VRC
  waited,   \* annotation snapshot-cleanup-wait-done of the VRC
  cleaned,  \* annotation cleanup-done of the VRC
  path,     \* protected path of the cluster
  flight,   \* is a snapshot of the path on its way to the cluster?
  snaps,    \* are there snapshots on the cluster?
  vols,     \* PVCs with a volume on the cluster
  pc,       \* worker of the VRC
  found,    \* has this pass found the path?
  names,    \* PVCs this pass has gathered
  warned,   \* has a CleanupFailed event said that a snapshot stays?
  parent,   \* the parent, and how far its worker is with the deletion
  policies, \* clusters with a protection policy of the parent
  missed,   \* history: clusters on which the last attempt to delete it failed
  faults

cluster == <<path, flight, snaps, vols>>
content == <<vr, vrc, waited, cleaned>>
worker == <<pc, found, names, warned>>
source == <<kind, pvc, listed, retain>>
owner == <<known, parent, policies, missed>>
vars == <<source, content, cluster, worker, owner, faults>>

Finale == {"path", "policies", "finalizer"}

Cleaning == {"path", "disable", "wait", "snapshots", "delete", "absent", "list", "volumes",
             "annotate"}

TypeOK ==
  /\ kind \in {"file", "block"} /\ known \subseteq PVCs
  /\ pvc \in [PVCs -> {"none", "pending", "bound", "gone"}]
  /\ listed \subseteq PVCs /\ retain \in BOOLEAN
  /\ vr \in [Clusters -> BOOLEAN] /\ waited \in [Clusters -> BOOLEAN]
  /\ cleaned \in [Clusters -> BOOLEAN]
  /\ vrc \in [Clusters -> {"live", "terminating", "absent"}]
  /\ path \in [Clusters -> {"none", "off", "on", "deleting"}]
  /\ flight \in [Clusters -> BOOLEAN] /\ snaps \in [Clusters -> BOOLEAN]
  /\ vols \in [Clusters -> SUBSET PVCs] /\ names \in [Clusters -> SUBSET PVCs]
  /\ pc \in [Clusters -> Cleaning \cup {"idle", "create", "peers", "finalizer"}]
  /\ found \in [Clusters -> BOOLEAN] /\ warned \in [Clusters -> BOOLEAN]
  /\ \A c \in Clusters : pc[c] \in Cleaning => vrc[c] = "terminating" /\ ~cleaned[c]
  /\ parent \in Finale \cup {"live", "terminating", "gone"}
  /\ policies \subseteq Clusters /\ missed \subseteq Clusters
  /\ faults \in 0..MaxFaults

Init ==
  /\ kind \in {"file", "block"} /\ known = {}
  /\ pvc = [p \in PVCs |-> "none"] /\ listed = {} /\ retain \in BOOLEAN
  /\ vr = [c \in Clusters |-> TRUE] /\ vrc = [c \in Clusters |-> "live"]
  /\ waited = [c \in Clusters |-> FALSE] /\ cleaned = [c \in Clusters |-> FALSE]
  /\ path = [c \in Clusters |-> "on"]
  /\ flight = [c \in Clusters |-> FALSE] /\ snaps = [c \in Clusters |-> FALSE]
  /\ vols = [c \in Clusters |-> {}] /\ names = [c \in Clusters |-> {}]
  /\ pc = [c \in Clusters |-> "idle"]
  /\ found = [c \in Clusters |-> FALSE] /\ warned = [c \in Clusters |-> FALSE]
  /\ parent = "live" /\ policies = Clusters /\ missed = {}
  /\ faults = 0

Fault == faults < MaxFaults /\ faults' = faults + 1

Go(c, step) == pc' = [pc EXCEPT ![c] = step]

\* The pass ends, and with it the provisioner and what it had cached.
EndPass(c) ==
  /\ Go(c, "idle")
  /\ found' = [found EXCEPT ![c] = FALSE]
  /\ names' = [names EXCEPT ![c] = {}]

-----------------------------------------------------------------------------
(* Users, VAST and the controllers of the other modules.                    *)

CreatePVC(p) ==
  /\ pvc[p] = "none"
  /\ pvc' = [pvc EXCEPT ![p] = "pending"]
  /\ UNCHANGED <<kind, listed, retain, content, cluster, worker, owner, faults>>

\* The CSI driver creates the volume on the cluster of the primary.
BindPVC(p) ==
  /\ pvc[p] = "pending"
  /\ pvc' = [pvc EXCEPT ![p] = "bound"]
  /\ vols' = [vols EXCEPT ![Primary] = @ \cup {p}]
  /\ UNCHANGED <<kind, listed, retain, content, path, flight, snaps, worker, owner, faults>>

\* A bound PVC takes its volume on the primary with it, and no other.
DeletePVC(p) ==
  /\ pvc[p] \in {"pending", "bound"}
  /\ pvc' = [pvc EXCEPT ![p] = "gone"]
  /\ vols' = [vols EXCEPT ![Primary] = @ \ {p}]
  /\ UNCHANGED <<kind, listed, retain, content, path, flight, snaps, worker, owner, faults>>

\* The replication object controller brings spec.pvcs of the primary up to date as
\* long as the VR or VGR is there.
Sources == {p \in PVCs : pvc[p] \in {"pending", "bound"}}
SyncVRCPVCs ==
  /\ vr[Primary] /\ vrc[Primary] = "live" /\ listed # Sources
  /\ listed' = Sources
  /\ UNCHANGED <<kind, pvc, retain, content, cluster, worker, owner, faults>>

\* The worker of the deleted parent deletes the VRs and VGRs: csi-addons calls
\* DisableVolumeReplication, which does nothing when the cluster does not answer, and
\* lets them go.
DisableVolumeReplication(c) ==
  /\ parent = "terminating" /\ vr[c]
  /\ vr' = [vr EXCEPT ![c] = FALSE]
  /\ \/ path' = [path EXCEPT ![c] = IF @ = "on" THEN "off" ELSE @]
     \/ UNCHANGED path
  /\ UNCHANGED <<source, vrc, waited, cleaned, flight, snaps, vols, worker, owner, faults>>

\* A VRC without its VR or VGR is deleted, by its own worker or by the replication
\* object controller.  Its finalizer keeps it.
SelfDestruct(c) ==
  /\ vrc[c] = "live" /\ ~vr[c]
  /\ vrc' = [vrc EXCEPT ![c] = "terminating"]
  /\ UNCHANGED <<source, vr, waited, cleaned, cluster, worker, owner, faults>>

\* Snapshots are sent over an enabled path.  The code disables its own end and waits,
\* which rests on an assumption about VAST: once a cluster's own end is disabled
\* nothing new is sent to it, whatever the state of the other end.
Replicate(c) ==
  /\ path[c] = "on" /\ ~flight[c]
  /\ flight' = [flight EXCEPT ![c] = TRUE]
  /\ UNCHANGED <<source, content, path, snaps, vols, worker, owner, faults>>

\* On a block destination VAST makes the volumes of the source appear by itself,
\* whether the VRC lists the PVC yet or not.
ReplicateVolume(c) ==
  /\ kind = "block" /\ c # Primary /\ path[c] = "on"
  /\ \E p \in vols[Primary] \ vols[c] : vols' = [vols EXCEPT ![c] = @ \cup {p}]
  /\ UNCHANGED <<source, content, path, flight, snaps, worker, owner, faults>>

Land(c) ==
  /\ flight[c]
  /\ flight' = [flight EXCEPT ![c] = FALSE]
  /\ snaps' = [snaps EXCEPT ![c] = TRUE]
  /\ UNCHANGED <<source, content, path, vols, worker, owner, faults>>

\* VAST completes the deletion of a path.
PathGone(c) ==
  /\ path[c] = "deleting"
  /\ path' = [path EXCEPT ![c] = "none"]
  /\ UNCHANGED <<source, content, flight, snaps, vols, worker, owner, faults>>

-----------------------------------------------------------------------------
(* A pass over a live VRC: ProvisionVolumes.                                *)

Bound(ps) == {p \in ps : pvc[p] = "bound"}

\* classifyConstellationPVCs: an unbound PVC ends the pass.  Only passes that have
\* something to create are modelled; the primary has its volumes already, and a block
\* destination is skipped (ProvisionVolumeCb).
ClassifyPVCs(c) ==
  /\ pc[c] = "idle" /\ vrc[c] = "live" /\ vr[c] /\ kind = "file"
  /\ \A p \in listed : pvc[p] # "pending"
  /\ c # Primary /\ ~ Bound(listed) \subseteq vols[c]
  /\ names' = [names EXCEPT ![c] = Bound(listed)]
  /\ Go(c, "create")
  /\ UNCHANGED <<source, content, cluster, found, warned, owner, faults>>

\* Quota and view are created where they are missing.
\* The volumes of PVCs that are gone stay: they are looked up by mirror PVCs, and
\* there are none.
SyncVolumes(c) ==
  /\ pc[c] = "create"
  /\ vols' = [vols EXCEPT ![c] = @ \cup names[c]]
  /\ EndPass(c)
  /\ UNCHANGED <<source, content, path, flight, snaps, warned, owner, faults>>

-----------------------------------------------------------------------------
(* A pass over a VRC that is being deleted: CleanVolumes.                   *)

\* The VR or VGR must have gone, and cleanup-done lets the pass skip the cleanup.
Start(c) ==
  /\ pc[c] = "idle" /\ vrc[c] = "terminating" /\ (cleaned[c] \/ ~vr[c])
  /\ Go(c, IF cleaned[c] THEN "peers" ELSE "path")
  /\ UNCHANGED <<source, content, cluster, found, names, warned, owner, faults>>

\* getPPathForSource; the pass works with what it has seen here (mutant: only a path
\* that this worker has to disable is waited for).
MutantGetPPath(c) ==
  /\ pc[c] = "path"
  /\ found' = [found EXCEPT ![c] = path[c] # "none"]
  /\ Go(c, IF path[c] = "on" THEN "disable" ELSE "snapshots")
  /\ UNCHANGED <<source, content, cluster, names, warned, owner, faults>>
GetPPath(c) ==
  /\ pc[c] = "path"
  /\ found' = [found EXCEPT ![c] = path[c] # "none"]
  /\ Go(c, IF path[c] = "on" THEN "disable" ELSE "wait")
  /\ UNCHANGED <<source, content, cluster, names, warned, owner, faults>>

DisablePath(c) ==
  /\ pc[c] = "disable"
  /\ path' = [path EXCEPT ![c] = "off"]
  /\ Go(c, "wait")
  /\ UNCHANGED <<source, content, flight, snaps, vols, found, names, warned, owner, faults>>

\* waitAfterPpathDisable, once per VRC: within the interval what was on its way has
\* arrived, unless the path goes on sending.
WaitAfterPpathDisable(c) ==
  /\ pc[c] = "wait"
  /\ waited[c] \/ path[c] = "on" \/ ~flight[c]
  /\ waited' = [waited EXCEPT ![c] = TRUE]
  /\ Go(c, "snapshots")
  /\ UNCHANGED <<source, vr, vrc, cleaned, cluster, found, names, warned, owner, faults>>

\* A snapshot that cannot be deleted is only warned about.
DeleteSnapshots(c) ==
  /\ pc[c] = "snapshots"
  /\ \/ snaps' = [snaps EXCEPT ![c] = FALSE] /\ UNCHANGED <<warned, faults>>
     \/ Fault /\ snaps[c] /\ warned' = [warned EXCEPT ![c] = TRUE] /\ UNCHANGED snaps
  /\ Go(c, IF found[c] THEN "delete" ELSE "list")
  /\ UNCHANGED <<source, content, path, flight, vols, found, names, owner>>

\* DeleteById; a path that has gone meanwhile is not waited for.
DeletePath(c) ==
  /\ pc[c] = "delete"
  /\ path' = [path EXCEPT ![c] = IF @ = "none" THEN @ ELSE "deleting"]
  /\ Go(c, IF path[c] = "none" THEN "list" ELSE "absent")
  /\ UNCHANGED <<source, content, flight, snaps, vols, found, names, warned, owner, faults>>

\* WaitForResource; the time limit is a fault.
AwaitAbsent(c) ==
  /\ pc[c] = "absent" /\ path[c] = "none"
  /\ Go(c, "list")
  /\ UNCHANGED <<source, content, cluster, found, names, warned, owner, faults>>

\* sourcePairsFromSiblingVRCs: the PVCs of the other VRCs, that is of the primary's
\* as long as it is there.
ListPairs(c) ==
  /\ pc[c] = "list"
  /\ names' = [names EXCEPT ![c] =
       IF retain \/ c = Primary \/ vrc[Primary] = "absent" THEN {} ELSE Bound(listed)]
  /\ Go(c, "volumes")
  /\ UNCHANGED <<source, content, cluster, found, warned, owner, faults>>

\* CleanVolumeCb deletes quota and view, or the block volume, of each.  There are no
\* mirror PVCs to remove, and CleanKubernetesResources finds nothing to wait for: it
\* looks for VRs and VGRs with a label that nobody sets.
DeleteVolumes(c, ps) == vols' = [vols EXCEPT ![c] = @ \ ps]

CleanVolumeCb(c) ==
  /\ pc[c] = "volumes"
  /\ DeleteVolumes(c, names[c])
  /\ Go(c, "annotate")
  /\ UNCHANGED <<source, content, path, flight, snaps, found, names, warned, owner, faults>>

\* One of them fails: the others are still deleted, then the pass ends.
CleanVolumeFails(c) ==
  /\ Fault
  /\ pc[c] = "volumes"
  /\ \E failed \in names[c] : DeleteVolumes(c, names[c] \ {failed})
  /\ EndPass(c)
  /\ UNCHANGED <<source, content, path, flight, snaps, warned, owner>>

Annotate(c) ==
  /\ pc[c] = "annotate"
  /\ cleaned' = [cleaned EXCEPT ![c] = TRUE]
  /\ Go(c, "peers")
  /\ UNCHANGED <<source, vr, vrc, waited, cluster, found, names, warned, owner, faults>>

\* allVCRsDeleted: every VRC that is still there must have cleaned up (mutants: not
\* asked; every other VRC must have gone).
MutantAllDone(c) == TRUE
MutantAllGone(c) == \A d \in Clusters \ {c} : vrc[d] = "absent"
AllVCRsDeleted(c) == \A d \in Clusters \ {c} : vrc[d] = "absent" \/ cleaned[d]

CheckPeers(c) ==
  /\ pc[c] = "peers" /\ AllVCRsDeleted(c)
  /\ Go(c, "finalizer")
  /\ UNCHANGED <<source, content, cluster, found, names, warned, owner, faults>>

RemoveFinalizer(c) ==
  /\ pc[c] = "finalizer"
  /\ vrc' = [vrc EXCEPT ![c] = "absent"]
  /\ EndPass(c)
  /\ UNCHANGED <<source, vr, waited, cleaned, cluster, warned, owner, faults>>

-----------------------------------------------------------------------------
(* The worker of the parent.                                                *)

DeleteParent ==
  /\ parent = "live"
  /\ parent' = "terminating" /\ known' = IF kind = "block" THEN listed ELSE {}
  /\ UNCHANGED <<source, content, cluster, worker, policies, missed, faults>>

\* handleDeletion waits until no VR or VGR and no VRC is left (mutant: the VRCs are
\* not waited for).
MutantAllContentGone == \A c \in Clusters : ~vr[c]
AllContentGone == \A c \in Clusters : ~vr[c] /\ vrc[c] = "absent"

HandleDeletion ==
  /\ parent = "terminating" /\ AllContentGone
  /\ parent' = "path"
  /\ UNCHANGED <<source, content, cluster, worker, known, policies, missed, faults>>

\* The path of the primary is deleted if it is still there; errors are logged.
DeleteLeftPath ==
  /\ parent = "path"
  /\ path' = [path EXCEPT ![Primary] = IF @ = "none" THEN @ ELSE "deleting"]
  /\ parent' = "policies"
  /\ UNCHANGED <<source, content, flight, snaps, vols, worker, known, policies, missed, faults>>

\* VAST does not delete a policy that a path uses.
InUse(c) == path[c] # "none"

\* DeleteProtectionPolicies, once for each cluster; errors are logged.
DeleteProtectionPolicies ==
  /\ parent = "policies"
  /\ \E failed \in SUBSET policies :
       /\ IF failed = {} THEN UNCHANGED faults ELSE Fault
       /\ policies' = {c \in policies : c \in failed \/ InUse(c)}
       /\ missed' = failed
  /\ parent' = "finalizer"
  /\ UNCHANGED <<source, content, cluster, worker, known>>

RemoveParent ==
  /\ parent = "finalizer"
  /\ parent' = "gone"
  /\ UNCHANGED <<source, content, cluster, worker, known, policies, missed, faults>>

-----------------------------------------------------------------------------

\* A call fails or times out, and the pass ends.
Abort(c) ==
  /\ Fault
  /\ pc[c] # "idle"
  /\ EndPass(c)
  /\ UNCHANGED <<source, content, cluster, warned, owner>>

\* The process restarts.  (A failed call of the parent's worker is no different.)
Crash ==
  /\ Fault
  /\ pc' = [c \in Clusters |-> "idle"]
  /\ found' = [c \in Clusters |-> FALSE]
  /\ names' = [c \in Clusters |-> {}]
  /\ parent' = IF parent \in Finale THEN "terminating" ELSE parent
  /\ UNCHANGED <<source, content, cluster, warned, known, policies, missed>>

-----------------------------------------------------------------------------

Work(c) ==
  \/ ClassifyPVCs(c) \/ SyncVolumes(c)
  \/ Start(c) \/ GetPPath(c) \/ DisablePath(c) \/ WaitAfterPpathDisable(c)
  \/ DeleteSnapshots(c) \/ DeletePath(c) \/ AwaitAbsent(c) \/ ListPairs(c)
  \/ CleanVolumeCb(c) \/ Annotate(c)
  \/ CheckPeers(c) \/ RemoveFinalizer(c)

Vast(c) == Land(c) \/ PathGone(c)

Finish == HandleDeletion \/ DeleteLeftPath \/ DeleteProtectionPolicies \/ RemoveParent

Next ==
  \/ \E p \in PVCs : CreatePVC(p) \/ BindPVC(p) \/ DeletePVC(p)
  \/ SyncVRCPVCs \/ DeleteParent \/ Finish
  \/ \E c \in Clusters : \/ DisableVolumeReplication(c) \/ SelfDestruct(c) \/ Replicate(c)
                         \/ ReplicateVolume(c) \/ Vast(c) \/ Work(c) \/ CleanVolumeFails(c) \/ Abort(c)
  \/ Crash

Spec == Init /\ [][Next]_vars

\* A pass that fails is queued again, csi-addons lets VRs and VGRs go, VRCs without one
\* are noticed, snapshots land and deletions complete.
FairSpec ==
  /\ Spec /\ WF_vars(Finish)
  /\ \A c \in Clusters : /\ WF_vars(Work(c)) /\ WF_vars(Vast(c))
                         /\ WF_vars(SelfDestruct(c)) /\ WF_vars(DisableVolumeReplication(c))

-----------------------------------------------------------------------------
(* Properties.                                                              *)

\* Snapshots of a path go on arriving after it is disabled, and the path may have
\* been disabled by the CSI driver or by an attempt that failed.  Yet when
\* cleanup-done is set the path is gone, and so are its snapshots, unless an event
\* has said otherwise.
NoSnapshotLeft ==
  \A c \in Clusters : cleaned[c] =>
    /\ path[c] = "none" /\ ~flight[c]
    /\ snaps[c] => warned[c]

\* A secondary learns from the VRC of the primary what it has to delete.  That VRC
\* is being deleted at the same time, so it must wait: with reclaim policy Delete no
\* volume is left behind on a cluster that has cleaned up for a PVC that exists.  A
\* block volume may have been replicated before its PVC was listed: of those, the ones
\* listed when the parent was deleted are accounted for.
Accountable == IF kind = "file" THEN PVCs ELSE known
NoVolumeLeft ==
  \A c \in Clusters \ {Primary} :
    cleaned[c] /\ ~retain => vols[c] \cap Bound(Accountable) = {}

\* Policies are deleted in one attempt, and VAST refuses while a path uses them.  The
\* attempt comes after every path has gone: when the parent has disappeared no policy
\* is left, except where the call itself failed.
NoPolicyLeft == parent = "gone" => policies \subseteq missed

\* The records and storage objects of ContentLifecycle: a path, what it has on the way
\* and its snapshots are held until they are gone or reported.
Record == [c \in Clusters |-> IF vrc[c] = "absent" THEN "absent"
                              ELSE IF cleaned[c] THEN "sealed" ELSE "open"]
Held == {c \in Clusters : path[c] # "none" \/ flight[c] \/ (snaps[c] /\ ~warned[c])}
Life == INSTANCE ContentLifecycle
          WITH owner <- (IF parent \in Finale THEN "terminating" ELSE parent),
               record <- Record, held <- Held

\* The cleanup in all its steps, repeated after failures and restarts, keeps to the
\* life cycle from an established replication on: cleanup-done is set only on a cluster
\* that holds nothing, and never before the last snapshot has landed, a VRC goes only
\* after it, nothing appears behind it, and the parent goes when nothing is held.
CleanupKeepsLifecycle == [][Life!Next]_(Life!lifeVars)

\* The VRCs wait for each other's cleanup-done, the parent waits for the VRCs, and
\* each VRC for its VR or VGR.  A parent that is deleted disappears.
TeardownCompletes == parent = "terminating" ~> parent = "gone"
=============================================================================
