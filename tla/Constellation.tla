--------------------------- MODULE Constellation ---------------------------
(***************************************************************************)
(* The life of one replication CR, a VastStorageClassReplication (VSCR) or  *)
(* a VastVolumeReplication (VVR), and of the objects three controllers of   *)
(* extensions-controller create and tear down for it: a replica object and  *)
(* a VastReplicationContent (VRC) per StorageClass, the replication         *)
(* classes, and the protected path on VAST.  The replica object is a        *)
(* VolumeGroupReplication (VGR) of a VSCR, a VolumeReplication (VR) of a    *)
(* VVR; the names below say VSCR and VGR for either.                        *)
(*                                                                          *)
(*  - CR worker: Reconcile and handleDeletion of the VSCR and the VVR       *)
(*    controller, which run the same protocol but for what `kind` selects;  *)
(*  - object worker, one per VGR: ReplicationObjectReconciler;              *)
(*  - content worker, one per VRC: VastReplicationContentReconciler.        *)
(*                                                                          *)
(* controller-runtime never runs two reconciles of one object at once, so   *)
(* there is one worker per object; different objects interleave freely, and *)
(* what a worker read may be stale when it acts.  All workers live in one   *)
(* process, which may crash.  csi-addons and the Kubernetes garbage         *)
(* collector are external.                                                  *)
(***************************************************************************)
EXTENDS Naturals, FiniteSets

CONSTANTS N,             \* number of StorageClasses in the topology
          Primary,       \* spec.primaryStorageClass
          ManualDelete,  \* VGRs a user may delete by hand
          PpathLossy,    \* may somebody delete the protected path on VAST?
          Kinds,         \* the kinds of CR considered
          MaxFaults     \* bound on failed calls and controller restarts

\* AllStorageClasses: the names of the topology in their (alphabetical) order.
SCs == 1..N

ASSUME ConstellationConstants ==
  /\ N \in Nat
  /\ Primary \in SCs
  /\ ManualDelete \subseteq SCs
  /\ PpathLossy \in BOOLEAN
  /\ Kinds # {} /\ Kinds \subseteq {"VSCR", "VVR"}
  /\ MaxFaults \in Nat

\* What a CR needs before its protected path, and what each part comes after.
Filled == {"peers", "dirs", "tenants"}
ComesAfter ==
  [VSCR |-> [peers |-> {}, dirs |-> {"peers"}, tenants |-> {"peers", "dirs"}],
   VVR  |-> [dirs |-> {}, tenants |-> {"dirs"}, peers |-> {"dirs", "tenants"}]]

VARIABLES
  kind,     \* VSCR or VVR
  vscr,     \* the CR: live, terminating (deletionTimestamp set) or gone
  fin,      \* does it carry FinalizerVSCR (FinalizerVVR)?
  named,    \* is status.ppathName set?
  ppath,    \* does the protected path exist on the primary cluster?
  setup,    \* what the first reconciles have filled in: the names of the peers in
            \* the spec, the mappings of directories and of tenants in the status
  class,    \* replication class per SC: none, or created with/without a ppath name
  vgr,      \* VGR per SC; foreground = terminating, foreground propagation
  bound,    \* has csi-addons adopted PVCs into the VGR?
  vrc,      \* VRC per SC
  blocks,   \* is blockOwnerDeletion of the VRC's owner reference not false?  The
            \* code takes unset, as SetOwnerReference leaves it, for blocking.
  cleaned,  \* does the VRC carry the cleanup-done annotation?
  res,      \* do the backend objects and mirror PVCs of the VRC exist?
  pc, todo, pname,  \* VSCR worker: control point, SCs left, local ppathName set?
  opc,      \* object workers
  cpc,      \* content workers
  faults

vscrVars == <<kind, vscr, fin, named, ppath, setup>>
objVars == <<class, vgr, bound>>
vrcVars == <<vrc, blocks, cleaned, res>>
worker == <<pc, todo, pname>>
vars == <<vscrVars, objVars, vrcVars, worker, opc, cpc, faults>>

TypeOK ==
  /\ vscr \in {"live", "terminating", "gone"}
  /\ fin \in BOOLEAN /\ named \in BOOLEAN /\ ppath \in BOOLEAN
  /\ kind \in Kinds /\ setup \in SUBSET Filled
  /\ class \in [SCs -> {"none", "named", "empty"}]
  /\ vgr \in [SCs -> {"absent", "live", "terminating", "foreground"}]
  /\ vrc \in [SCs -> {"absent", "live", "terminating"}]
  /\ bound \in [SCs -> BOOLEAN]
  /\ blocks \in [SCs -> BOOLEAN]
  /\ cleaned \in [SCs -> BOOLEAN]
  /\ res \in [SCs -> BOOLEAN]
  /\ pc \in {"idle", "validate", "setup", "status", "ensure", "delete", "count", "list",
             "backend", "finalizer"}
  /\ todo \in SUBSET SCs
  /\ pname \in BOOLEAN
  /\ opc \in [SCs -> {"idle", "deleteVRC", "createVRC"}]
  /\ cpc \in [SCs -> {"idle", "selfdelete", "provision", "unblock", "clean",
                      "annotate", "peers", "finalizer"}]
  /\ faults \in 0..MaxFaults

Init ==
  /\ kind \in Kinds /\ setup \in {{}, {"peers"}}
  /\ vscr = "live" /\ fin = FALSE /\ named = FALSE /\ ppath = FALSE
  /\ class = [s \in SCs |-> "none"]
  /\ vgr = [s \in SCs |-> "absent"]
  /\ bound = [s \in SCs |-> FALSE]
  /\ vrc = [s \in SCs |-> "absent"]
  /\ blocks = [s \in SCs |-> FALSE]
  /\ cleaned = [s \in SCs |-> FALSE]
  /\ res = [s \in SCs |-> FALSE]
  /\ pc = "idle" /\ todo = {} /\ pname = FALSE
  /\ opc = [s \in SCs |-> "idle"]
  /\ cpc = [s \in SCs |-> "idle"]
  /\ faults = 0

\* A call to the API server or to VAST fails.
Fault == faults < MaxFaults /\ faults' = faults + 1

\* Loops over StorageClasses run in the order of AllStorageClasses.
First(S) == CHOOSE s \in S : \A t \in S : s <= t

-----------------------------------------------------------------------------
(* CR worker, live CR.                                                      *)

\* Reads a live VSCR and adds the finalizer; only the reconcile that added it
\* goes through validateOnce.  The spec changes that only concern which SC is
\* primary are in module Failover.
StartReconcile ==
  /\ pc = "idle" /\ vscr = "live"
  /\ fin' = TRUE
  /\ pc' = IF fin THEN "setup" ELSE "validate"
  /\ UNCHANGED <<kind, vscr, named, ppath, setup, objVars, vrcVars, todo, pname, opc, cpc, faults>>

\* validateOnce passes only when no protected path of that name exists.
NameIsFree == ~ppath
ValidateOnce ==
  /\ pc = "validate" /\ NameIsFree
  /\ pc' = "setup"
  /\ UNCHANGED <<vscrVars, objVars, vrcVars, todo, pname, opc, cpc, faults>>

\* It fails: the finalizer is taken off again, and an error of that call is
\* ignored.  A VSCR deleted meanwhile disappears with its finalizer.
RejectVSCR ==
  /\ pc = "validate"
  /\ pc' = "idle"
  /\ \/ /\ fin' = FALSE /\ faults' = faults
        /\ vscr' = IF vscr = "terminating" THEN "gone" ELSE vscr
     \/ Fault /\ UNCHANGED <<fin, vscr>>
  /\ UNCHANGED <<kind, named, ppath, setup, objVars, vrcVars, todo, pname, opc, cpc>>

\* Each part of the set-up is written once, and a part that fails is tried again by
\* the next pass.
FillIn(x) ==
  /\ pc = "setup" /\ x \notin setup /\ ComesAfter[kind][x] \subseteq setup
  /\ setup' = setup \cup {x}
  /\ UNCHANGED <<kind, vscr, fin, named, ppath, objVars, vrcVars, todo, pname, opc, cpc, faults>>

\* ResolveAndFetchTopologyPeers is an update of the spec, which ends the pass and
\* causes the next one.
ResolvePeers == FillIn("peers") /\ pc' = "idle"

\* Predict fills status.ppathDirMapping, ResolveTenant status.tenantMapping.
PredictDirs == FillIn("dirs") /\ UNCHANGED pc
ResolveTenants == FillIn("tenants") /\ UNCHANGED pc

SetUp == ResolvePeers \/ PredictDirs \/ ResolveTenants

\* status.ppathName set: IsPpathActive.  NotFound clears the status.  The VVR then
\* builds the path anew, the VSCR goes on to the VGRs with an empty name (mutant:
\* so does the VVR).
MutantVerifyPpath ==
  /\ pc = "setup" /\ setup = Filled /\ named
  /\ pc' = "ensure" /\ todo' = SCs
  /\ pname' = ppath /\ named' = ppath
  /\ UNCHANGED <<kind, vscr, fin, ppath, setup, objVars, vrcVars, opc, cpc, faults>>
VerifyPpath ==
  /\ pc = "setup" /\ setup = Filled /\ named
  /\ named' = ppath
  /\ IF kind = "VVR" /\ ~ppath
     THEN UNCHANGED <<pc, todo, pname>>
     ELSE pc' = "ensure" /\ todo' = SCs /\ pname' = ppath
  /\ UNCHANGED <<kind, vscr, fin, ppath, setup, objVars, vrcVars, opc, cpc, faults>>

\* status.ppathName empty: EnsureConstellationPpath creates the path and waits
\* until it is active on every cluster.  A path of that name is reused.
EnsurePpath ==
  /\ pc = "setup" /\ setup = Filled /\ ~named
  /\ ppath' = TRUE
  /\ pc' = "status"
  /\ UNCHANGED <<kind, vscr, fin, named, setup, objVars, vrcVars, todo, pname, opc, cpc, faults>>

\* ... and, once it is active, its name is stored in the status.
StorePpathName ==
  /\ pc = "status"
  /\ pc' = "ensure" /\ todo' = SCs
  /\ named' = TRUE /\ pname' = TRUE
  /\ UNCHANGED <<kind, vscr, fin, ppath, setup, objVars, vrcVars, opc, cpc, faults>>

\* The loop over AllStorageClassesPrimaryFirst.
PrimaryFirst(S) == IF Primary \in S THEN Primary ELSE First(S)
NextToEnsure(s) ==
  /\ pc = "ensure" /\ s \in todo /\ s = PrimaryFirst(todo)
  /\ todo' = todo \ {s}
  /\ pc' = IF todo' = {} THEN "idle" ELSE "ensure"
  /\ pname' = (pname /\ todo' # {})

\* Replication classes are created when missing, with the name of the path that
\* the worker has, and are immutable.
ReplicationClass == IF pname THEN "named" ELSE "empty"
EnsureClasses(s) ==
  class' = [class EXCEPT ![s] = IF @ = "none" THEN ReplicationClass ELSE @]

\* ensureVGR, ensureVR: classes and VGR are created when missing.  WaitForVRC
\* after a creation gives up after 30 seconds, so it orders nothing.
EnsureVGR(s) ==
  /\ NextToEnsure(s)
  /\ EnsureClasses(s)
  /\ vgr' = IF vgr[s] = "absent" THEN [vgr EXCEPT ![s] = "live"] ELSE vgr
  /\ UNCHANGED <<vscrVars, bound, vrcVars, opc, cpc, faults>>

\* An error in ensureVGR is collected and the loop goes on; the classes may
\* have been created before it.
SkipVGR(s) ==
  /\ Fault
  /\ NextToEnsure(s)
  /\ EnsureClasses(s) \/ class' = class
  /\ UNCHANGED <<vscrVars, vgr, bound, vrcVars, opc, cpc>>

\* mirrorPVCName: the VR of a secondary cannot be named while the source PVC is
\* not bound.
SkipUnnamedVR(s) ==
  /\ kind = "VVR" /\ s # Primary
  /\ NextToEnsure(s)
  /\ EnsureClasses(s)
  /\ UNCHANGED <<vscrVars, vgr, bound, vrcVars, opc, cpc, faults>>

-----------------------------------------------------------------------------
(* CR worker, handleDeletion.                                             *)

StartDeletion ==
  /\ pc = "idle" /\ vscr = "terminating" /\ fin
  /\ pc' = "delete" /\ todo' = SCs
  /\ UNCHANGED <<vscrVars, objVars, vrcVars, pname, opc, cpc, faults>>

\* Delete on an object with finalizers only sets its deletionTimestamp.
Terminate(g) == IF g = "live" THEN "terminating" ELSE g

\* The loop of DeleteVolumeGroupReplication.
DeleteVGR(s) ==
  /\ pc = "delete" /\ s \in todo /\ s = First(todo)
  /\ vgr' = [vgr EXCEPT ![s] = Terminate(@)]
  /\ todo' = todo \ {s}
  /\ pc' = IF todo' = {} THEN "count" ELSE "delete"
  /\ UNCHANGED <<vscrVars, class, bound, vrcVars, pname, opc, cpc, faults>>

\* countOwnedVGRs, countOwnedVRs count the objects whose Get succeeds: those whose
\* Get fails (errs) are taken for gone.
Counted(errs) == {s \in SCs \ errs : vgr[s] # "absent"}
CountVGRs(errs) ==
  /\ pc = "count"
  /\ IF errs = {} THEN faults' = faults ELSE Fault
  /\ pc' = IF Counted(errs) = {} THEN "list" ELSE "idle"
  /\ UNCHANGED <<vscrVars, objVars, vrcVars, todo, pname, opc, cpc>>

\* Any VRC with the label of this VSCR keeps the finalizer.
Labelled == {s \in SCs : vrc[s] # "absent"}
MutantListVRCs ==
  /\ pc = "list"
  /\ pc' = "backend"
  /\ UNCHANGED <<vscrVars, objVars, vrcVars, todo, pname, opc, cpc, faults>>
ListVRCs ==
  /\ pc = "list"
  /\ pc' = IF Labelled = {} THEN "backend" ELSE "idle"
  /\ UNCHANGED <<vscrVars, objVars, vrcVars, todo, pname, opc, cpc, faults>>

\* Deletes the protected path when the status knows its name, and the
\* policies; errors are logged and ignored.
DeleteBackend ==
  /\ pc = "backend"
  /\ \/ ppath' = (ppath /\ ~named) /\ faults' = faults
     \/ ppath /\ named /\ Fault /\ ppath' = ppath
  /\ pc' = "finalizer"
  /\ UNCHANGED <<kind, vscr, fin, named, setup, objVars, vrcVars, todo, pname, opc, cpc>>

RemoveFinalizer ==
  /\ pc = "finalizer"
  /\ pc' = "idle"
  /\ vscr' = "gone" /\ fin' = FALSE
  /\ UNCHANGED <<kind, named, ppath, setup, objVars, vrcVars, todo, pname, opc, cpc, faults>>

\* Any other call that fails ends the reconcile; it is queued again.
AbortVSCR ==
  /\ Fault
  /\ pc \in {"setup", "status", "delete", "list", "finalizer"}
  /\ pc' = "idle" /\ todo' = {}
  /\ UNCHANGED <<vscrVars, objVars, vrcVars, pname, opc, cpc>>

-----------------------------------------------------------------------------
(* Object worker: reconcileVGR.                                             *)

\* A terminating VGR takes its VRC along; a live one without VRC gets one, once
\* resolveSourcePPath has found the protected path.  Any other case changes
\* nothing here.
VRCToDelete(s) == vgr[s] \in {"terminating", "foreground"} /\ vrc[s] = "live"
SourcePpathFound == ppath
VRCToCreate(s) == vgr[s] = "live" /\ vscr # "gone" /\ vrc[s] = "absent" /\ SourcePpathFound

\* reconcileVGR, reconcileVR read the VGR, its parent and its VRC.
ReadVGR(s) ==
  /\ opc[s] = "idle"
  /\ \/ VRCToDelete(s) /\ opc' = [opc EXCEPT ![s] = "deleteVRC"]
     \/ VRCToCreate(s) /\ opc' = [opc EXCEPT ![s] = "createVRC"]
  /\ UNCHANGED <<vscrVars, objVars, vrcVars, worker, cpc, faults>>

DeleteVRC(s) ==
  /\ opc[s] = "deleteVRC"
  /\ vrc' = [vrc EXCEPT ![s] = Terminate(@)]
  /\ opc' = [opc EXCEPT ![s] = "idle"]
  /\ UNCHANGED <<vscrVars, objVars, blocks, cleaned, res, worker, cpc, faults>>

\* Create succeeds whatever became of the VGR and the VSCR meanwhile; it fails
\* when a VRC of that name exists.
CreateVRC(s) ==
  /\ opc[s] = "createVRC"
  /\ opc' = [opc EXCEPT ![s] = "idle"]
  /\ IF vrc[s] = "absent"
     THEN /\ vrc' = [vrc EXCEPT ![s] = "live"]
          /\ blocks' = [blocks EXCEPT ![s] = TRUE]
     ELSE UNCHANGED <<vrc, blocks>>
  /\ UNCHANGED <<vscrVars, objVars, cleaned, res, worker, cpc, faults>>

AbortObject(s) ==
  /\ Fault
  /\ opc[s] # "idle"
  /\ opc' = [opc EXCEPT ![s] = "idle"]
  /\ UNCHANGED <<vscrVars, objVars, vrcVars, worker, cpc>>

-----------------------------------------------------------------------------
(* Content worker: VastReplicationContentReconciler.Reconcile.              *)

ParentIsFullyGone(s) == vgr[s] = "absent"
ParentIsTerminating(s) == vgr[s] \in {"terminating", "foreground"}
ParentIsGoneOrTerminating(s) == ParentIsFullyGone(s) \/ ParentIsTerminating(s)

\* What the worker decides to do from the VRC and the VGR it reads.
NextContentStep(s) ==
  IF vrc[s] = "live"
  THEN IF ParentIsGoneOrTerminating(s) THEN "selfdelete" ELSE "provision"
  ELSE CASE cleaned[s] -> "peers"
         [] ~cleaned[s] /\ ParentIsFullyGone(s) -> "clean"
         [] ~cleaned[s] /\ ~ParentIsFullyGone(s) -> "unblock"

\* lookupVRCParent comes first: without the VSCR nothing happens.
MutantReadVRC(s) ==
  /\ cpc[s] = "idle" /\ vrc[s] # "absent"
  /\ cpc' = [cpc EXCEPT ![s] = IF vrc[s] = "terminating" /\ ~cleaned[s]
                               THEN "clean" ELSE NextContentStep(s)]
  /\ UNCHANGED <<vscrVars, objVars, vrcVars, worker, opc, faults>>
ReadVRC(s) ==
  /\ cpc[s] = "idle" /\ vrc[s] # "absent" /\ vscr # "gone"
  /\ cpc' = [cpc EXCEPT ![s] = NextContentStep(s)]
  /\ UNCHANGED <<vscrVars, objVars, vrcVars, worker, opc, faults>>

SelfDelete(s) ==
  /\ cpc[s] = "selfdelete"
  /\ vrc' = [vrc EXCEPT ![s] = Terminate(@)]
  /\ cpc' = [cpc EXCEPT ![s] = "idle"]
  /\ UNCHANGED <<vscrVars, objVars, blocks, cleaned, res, worker, opc, faults>>

\* provisionResources; even a failed attempt may leave objects behind.
Provision(s) ==
  /\ cpc[s] = "provision"
  /\ \E made \in BOOLEAN : res' = [res EXCEPT ![s] = @ \/ made]
  /\ cpc' = [cpc EXCEPT ![s] = "idle"]
  /\ UNCHANGED <<vscrVars, objVars, vrc, blocks, cleaned, worker, opc, faults>>

\* unblockParentDeletion patches the owner reference of a VRC whose VGR is
\* still terminating.
Unblock(s) ==
  /\ cpc[s] = "unblock"
  /\ blocks' = [blocks EXCEPT ![s] = @ /\ ~ParentIsTerminating(s)]
  /\ cpc' = [cpc EXCEPT ![s] = "idle"]
  /\ UNCHANGED <<vscrVars, objVars, vrc, cleaned, res, worker, opc, faults>>

\* CleanVolumes.  Cleaning the primary's VRC deletes the protected path too.
MutantClean(s) ==
  /\ cpc[s] = "clean"
  /\ ppath' = (ppath /\ s # Primary)
  /\ cpc' = [cpc EXCEPT ![s] = "annotate"]
  /\ UNCHANGED <<kind, vscr, fin, named, setup, objVars, vrcVars, worker, opc, faults>>
Clean(s) ==
  /\ cpc[s] = "clean"
  /\ res' = [res EXCEPT ![s] = FALSE]
  /\ ppath' = (ppath /\ s # Primary)
  /\ cpc' = [cpc EXCEPT ![s] = "annotate"]
  /\ UNCHANGED <<kind, vscr, fin, named, setup, objVars, vrc, blocks, cleaned, worker, opc, faults>>

\* SetAnnotationAndUpdate(cleanup-done).
Annotate(s) ==
  /\ cpc[s] = "annotate"
  /\ cleaned' = [cleaned EXCEPT ![s] = TRUE]
  /\ cpc' = [cpc EXCEPT ![s] = "peers"]
  /\ UNCHANGED <<vscrVars, objVars, vrc, blocks, res, worker, opc, faults>>

\* allVCRsDeleted: every other VRC of the constellation is annotated.
MutantCheckPeers(s) ==
  /\ cpc[s] = "peers"
  /\ cpc' = [cpc EXCEPT ![s] =
               IF \A t \in SCs \ {s} : vrc[t] = "absent" THEN "finalizer" ELSE "idle"]
  /\ UNCHANGED <<vscrVars, objVars, vrcVars, worker, opc, faults>>
CheckPeers(s) ==
  /\ cpc[s] = "peers"
  /\ cpc' = [cpc EXCEPT ![s] =
               IF \A t \in SCs \ {s} : vrc[t] = "absent" \/ cleaned[t]
               THEN "finalizer" ELSE "idle"]
  /\ UNCHANGED <<vscrVars, objVars, vrcVars, worker, opc, faults>>

RemoveVRCFinalizer(s) ==
  /\ cpc[s] = "finalizer"
  /\ vrc' = [vrc EXCEPT ![s] = "absent"]
  /\ cleaned' = [cleaned EXCEPT ![s] = FALSE]
  /\ blocks' = [blocks EXCEPT ![s] = FALSE]
  /\ cpc' = [cpc EXCEPT ![s] = "idle"]
  /\ UNCHANGED <<vscrVars, objVars, res, worker, opc, faults>>

\* A failed call ends the reconcile; it is queued again.
AbortContent(s) ==
  /\ Fault
  /\ cpc[s] # "idle"
  /\ cpc' = [cpc EXCEPT ![s] = "idle"]
  /\ UNCHANGED <<vscrVars, objVars, vrcVars, worker, opc>>

-----------------------------------------------------------------------------
(* Environment.                                                             *)

UserDeleteVSCR ==
  /\ vscr = "live"
  /\ vscr' = IF fin THEN "terminating" ELSE "gone"
  /\ UNCHANGED <<kind, fin, named, ppath, setup, objVars, vrcVars, worker, opc, cpc, faults>>

UserDeleteVGR(s) ==
  /\ s \in ManualDelete /\ vgr[s] = "live"
  /\ \E mode \in {"terminating", "foreground"} : vgr' = [vgr EXCEPT ![s] = mode]
  /\ UNCHANGED <<vscrVars, class, bound, vrcVars, worker, opc, cpc, faults>>

LosePpath ==
  /\ PpathLossy /\ ppath
  /\ ppath' = FALSE
  /\ UNCHANGED <<kind, vscr, fin, named, setup, objVars, vrcVars, worker, opc, cpc, faults>>

\* csi-addons adopts the PVCs its selector finds into a live VGR ...
CsiAddonsAdopt(s) ==
  /\ vgr[s] = "live" /\ res[s] /\ ~bound[s]
  /\ bound' = [bound EXCEPT ![s] = TRUE]
  /\ UNCHANGED <<vscrVars, class, vgr, vrcVars, worker, opc, cpc, faults>>

\* ... and removes its finalizer from a terminating VGR after cleanupGroupPVC,
\* which fails when adopted PVCs have disappeared.  Foreground deletion also
\* waits for a dependent that blocks.
CsiAddonsFinalize(s) ==
  /\ vgr[s] \in {"terminating", "foreground"}
  /\ bound[s] => res[s]
  /\ vgr[s] = "foreground" => vrc[s] = "absent" \/ ~blocks[s]
  /\ vgr' = [vgr EXCEPT ![s] = "absent"]
  /\ bound' = [bound EXCEPT ![s] = FALSE]
  /\ UNCHANGED <<vscrVars, class, vrcVars, worker, opc, cpc, faults>>

\* The garbage collector deletes a VRC whose owner is gone, or is being
\* deleted in the foreground.
CollectVRC(s) ==
  /\ vgr[s] \in {"absent", "foreground"} /\ vrc[s] = "live"
  /\ vrc' = [vrc EXCEPT ![s] = "terminating"]
  /\ UNCHANGED <<vscrVars, objVars, blocks, cleaned, res, worker, opc, cpc, faults>>

\* The controller process dies between two steps and is started again.
Crash ==
  /\ Fault
  /\ pc' = "idle" /\ todo' = {} /\ pname' = FALSE
  /\ opc' = [s \in SCs |-> "idle"]
  /\ cpc' = [s \in SCs |-> "idle"]
  /\ UNCHANGED <<vscrVars, objVars, vrcVars>>

-----------------------------------------------------------------------------

VSCRStep ==
  \/ ValidateOnce \/ RejectVSCR \/ VerifyPpath \/ EnsurePpath \/ StorePpathName
  \/ StartDeletion \/ ListVRCs \/ DeleteBackend \/ RemoveFinalizer
  \/ SetUp
  \/ \E s \in SCs : EnsureVGR(s) \/ SkipUnnamedVR(s) \/ DeleteVGR(s)
  \/ CountVGRs({})

ObjectStep(s) == ReadVGR(s) \/ DeleteVRC(s) \/ CreateVRC(s)

ContentStep(s) ==
  \/ ReadVRC(s) \/ SelfDelete(s) \/ Provision(s) \/ Unblock(s) \/ Clean(s)
  \/ Annotate(s) \/ CheckPeers(s) \/ RemoveVRCFinalizer(s)

Faults ==
  \/ AbortVSCR \/ Crash
  \/ \E errs \in SUBSET SCs \ {{}} : CountVGRs(errs)
  \/ \E s \in SCs : SkipVGR(s) \/ AbortObject(s) \/ AbortContent(s)

Environment ==
  \/ UserDeleteVSCR \/ LosePpath
  \/ \E s \in SCs : UserDeleteVGR(s) \/ CsiAddonsAdopt(s) \/ CollectVRC(s)

Next ==
  \/ StartReconcile \/ VSCRStep
  \/ \E s \in SCs : ObjectStep(s) \/ ContentStep(s) \/ CsiAddonsFinalize(s)
  \/ Faults \/ Environment

\* A reconcile that ends in an error or has to wait is queued again, so every
\* worker with something to do runs.  A live VSCR needs an event to be
\* reconciled: no fairness on StartReconcile.  Faults are finitely many.
Fairness ==
  /\ WF_vars(VSCRStep)
  /\ \A s \in SCs : /\ WF_vars(ObjectStep(s))
                     /\ WF_vars(ContentStep(s))
                     /\ WF_vars(CsiAddonsFinalize(s))

Spec == Init /\ [][Next]_vars /\ Fairness
-----------------------------------------------------------------------------
(* Properties.                                                              *)

\* Backend objects never outlive the object that would clean them up: once a
\* VRC is gone, after any interleaving of provisioning, deletion and restarts,
\* nothing it provisioned is left.
NoOrphanResources == \A s \in SCs : res[s] => vrc[s] # "absent"

\* The cleanup-done annotation is the truth for as long as the VRC exists: no
\* provisioning that was under way puts resources back behind it.
CleanedIsClean == \A s \in SCs : cleaned[s] => ~res[s]

\* handleDeletion waits for the VRCs before it removes the VSCR finalizer, so
\* that they can finish their cleanup: once the VSCR is gone no StorageClass
\* has resources left, whatever API errors and faults happened on the way.
NoResourcesAfterVSCR == vscr = "gone" => \A s \in SCs : ~res[s]

\* The comment in Reconcile of the VRC controller: cleanup waits for the VGR to
\* be fully gone, because csi-addons needs the PVCs it adopted to finalize the
\* VGR, which would otherwise be "stuck forever".
NoWedgedVGR == \A s \in SCs : vgr[s] # "absent" /\ bound[s] => res[s]

\* "Immutable replication class with the correct ppath-name parameter": a class is
\* never created without the name of the path, whose loss may be noticed between
\* any two steps of the pass; nothing would ever repair it.  The VSCR controller
\* can create such classes, the VVR controller cannot.
ClassesNamed == kind = "VVR" => \A s \in SCs : class[s] # "empty"

\* A VRC is a record of ContentLifecycle, sealed by the cleanup-done annotation.
Record == [s \in SCs |-> IF vrc[s] = "absent" THEN "absent"
                         ELSE IF cleaned[s] THEN "sealed" ELSE "open"]
Held == {s \in SCs : res[s]}

Life == INSTANCE ContentLifecycle
          WITH Clusters <- SCs, owner <- vscr, record <- Record, held <- Held

\* The three workers, csi-addons and the garbage collector, with every stale read,
\* failure and restart, implement the life cycle of ContentLifecycle: nothing is
\* provisioned without a VRC or behind its cleanup-done annotation, no VRC goes
\* before it carries that annotation, and the CR ends when nothing is left.
ImplementsLifecycle == Life!Spec

\* A deleted VSCR goes away: no worker waits for another one for ever.
DeletionCompletes == vscr = "terminating" ~> vscr = "gone"
=============================================================================
