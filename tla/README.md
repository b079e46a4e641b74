# Verification of vast-csi: the replication control plane

TLA+ models of the parts of this repository where several actors change shared
state, the TLC runs that check them on small instances, and TLAPS proofs of the
safety properties of the core. Paths are relative to the repository;
`extensions-controller/internal/` is written `EC/` and
`EC/controller/` is written `EC/c/`.

## 1. The system

vast-csi has two programs.

* **extensions-controller** (Go): Kubernetes controllers that build and drive
  replication between VAST clusters. A *constellation* is a set of
  StorageClasses, one per VAST cluster, that replicate one *protected path*.
* **vast_csi** (Python): the CSI driver (NFS, block), the COSI driver, and the
  csi-addons replication and volume-group services.

### Components

| Component | State it keeps | Operations | Modelled by |
|---|---|---|---|
| Per-key locker `EC/c/key_locker.go` | map key -> mutex with a reference count | `Lock`, the unlock closure | `KeyLocker` |
| VSCR controller `EC/c/vaststorageclassreplication_controller.go` | the CR's finalizer and status (`ppathName`, `currentPrimaryStorageClass`, `syncStatus`), one VGR and replication class per StorageClass | `Reconcile`, `validateOnce`, `ensurePrimaryStorageClass`, `ensureVGR`, `syncVGRReplicationStates`, `ensureResync`, `handleDeletion` | `Constellation` (life cycle), `Failover` (roles), `Admission` (writes of the CR), `Teardown` (deletion on VAST) |
| VVR controller `EC/c/vastvolumereplication_controller.go` | as above with one VolumeReplication (VR) per StorageClass | as above | as above |
| Replication object controller `EC/c/replication_object_controller.go` | the VRC of each VGR/VR | `reconcileVGR`, `reconcileVR` | `Constellation`; its PVC list: `Mirrors` |
| VRC controller `EC/c/vastreplicationcontent_controller.go` | mirror PVs and PVCs and VAST objects of one cluster, cleanup annotation | provision, clean, peer barrier | `Constellation`; provisioning: `Mirrors`; cleaning: `Teardown` |
| Provisioners `EC/provisioner/{base,file,block}.go` | views and quotas or block volumes, mirror PVCs and PVs | `ProvisionVolumes`, `ensureReplicaMirrors`, `cleanReplicaMirrorOrphans`, `CleanVolumes` | `Mirrors` (with `syncPVCPV`), `Teardown` (without, and `CleanVolumes`) |
| Protected path set-up `EC/common/vmsrest` | policies, path and streams on VAST, target directories | `DiscoverLinkPolicies`, `EnsureConstellationPpath`, `handlePathOnPeerExists`, `DeleteProtectionPolicies` | `PpathStreams`, `Teardown` |
| PVC remap controller `EC/c/pvcremap_controller.go` | none (pod templates of workloads) | remap table, pod scan, patch | `PvcRemap` |
| COSI credential controllers `EC/c/{credentials_flattener,ba_secret_resync}_controller.go`, `EC/common/cosi` | `*-flat` Secret and ConfigMap, the grant in the BucketAccess status | flatten, roll back, clean; delete the Secret, clear the grant | `BucketCredentials` |
| CRD webhook `EC/webhook/vast_replication_crd_validation_webhook.go`, `EC/common/k8s_client` | none (reads the informer cache) | admit or deny; update with retries after conflicts | `Admission` |
| Predicates `EC/c/predicates.go` | none | decide which events wake a controller | those that matter for progress, in `Failover`, `Mirrors` and `PvcRemap` |
| Driver, replication RPCs `vast_csi/plugins/replication.py` | none (VAST's role) | `PromoteVolume`, `DemoteVolume`, `ResyncVolume`, `DisableVolumeReplication` | `Failover`, `Teardown` |
| vcsi CLI `EC/cmd/cli/actions` | none | `failover`, `sync` edit a CR | the user's actions of `Failover` |
| Extensions gRPC server; driver: NFS, block, volume groups, COSI, VMS session | VAST objects, mounts; the session token | RPCs | not modelled (section 6) |

csi-addons, the Kubernetes API server and garbage collector, and VAST itself are
external: they are modelled from how the code uses them and marked so in the map.

### How the components interact

```
 user / vcsi --spec--> VSCR, VVR --create, patch replicationState--> VGR, VR (csi-addons)
                          |                                           |        |
                          | policies, path, streams                   | owns   | Promote / Demote / Resync
                          v                                           v        v
                        VAST <------- provision, clean ------------- VRC     driver --roles--> VAST
```

Nothing here is transactional. A reconcile is a sequence of API calls; the
object it read may be stale at each; the process may die between any two; each
controller runs one worker per object, different objects concurrently.
Progress after an error is the work queue's retry; csi-addons retries a driver
call until it succeeds. VAST works asynchronously.

### What is hard, and what makes each part correct

* **Deletion.** VSCR waits for VGRs and VRCs; each VGR waits for csi-addons,
  which needs the mirror PVCs; each VRC waits for its VGR and for the other VRCs.
  Correct: this terminates, nothing provisioned is left, and nothing
  is deleted too early.
* **Provisioning races deletion.** A worker that decided to provision or to
  create a VRC acts after the deletion began.
* **Failover.** Wanted state (CR), requested state (VGR/VR spec), reported state
  (VGR/VR status) and truth (VAST role) are four variables written by four
  actors. Correct: the switch is completed whatever fails in between, split
  brain does not last, a demotion never hits the only source, and the status is true.
* **Set-up of the path.** A dozen dependent asynchronous steps, each with a
  time-out, restarted from the top after any failure. Correct: idempotent,
  properly ordered, and it ends.
* **Mirrors.** A PVC of the primary reaches the secondaries through two lists and
  a touch, each in another object, and nothing polls. Correct: the mirrors
  converge, and the mirror of a live PVC is never taken for an orphan.
* **Teardown.** What the clusters hold is deleted by one worker per cluster while
  snapshots still arrive and the list of volumes disappears with the primary's VRC.
  Correct: cleanup-done is written only when path, snapshots and volumes are gone,
  and the policies are deleted after the last path.
* **Remapping workloads.** Triggered by transitions only, and never repeated.
  Correct: no settled state leaves a workload on an old sibling unnoticed.
* **Bucket credentials.** Two controllers and a sidecar delete and write the same
  objects, reading caches that lag. Correct: both converge, and objects of others
  are not overwritten.
* **Admission.** The webhook decides from a cache, and controllers send back whole
  objects they read earlier. Correct: two VSCRs never own one StorageClass, a failover
  is not undone, and no deleted CR is kept by the webhook.
* **Locking.** The per-key locker creates and removes its mutexes concurrently.

The hazards of the modelled parts, each at its line and with the properties that
cover it, are `hazards` in `PROJECT.json`; those no property covers have a note there, or
are in section 6.

## 2. Modules

| Module | What it is |
|---|---|
| `KeyLocker` | `Lock` and the unlock closure, one action per atomic operation |
| `Constellation` | a VSCR or VVR, its VGRs or VRs, VRCs, classes and path; the three controllers' workers, csi-addons, the garbage collector, faults and restarts |
| `ContentLifecycle` | what `Constellation` and the cleanup of `Teardown` promise: a record per cluster that outlives what was made on its behalf, is sealed before it is closed, and an owner that ends when nothing is left |
| `Failover` | switching the primary: user, reconciler, csi-addons and driver, VAST roles; `Kind` selects the VSCR's or the VVR's rules |
| `PpathStreams` | set-up of policies, path and streams |
| `Mirrors` | mirror PVCs of the primary's PVCs: lists, touches, provisioning, orphans |
| `Teardown` | deletion of paths, snapshots, volumes and policies on all clusters |
| `PvcRemap` | moving workloads to the sibling PVC of the new primary |
| `BucketCredentials` | the two COSI controllers, the sidecar, and lagging copies of Secrets and ConfigMaps |
| `Admission` | webhook, store, cache and the controllers' writes of VSCRs and VVRs |
| `ConstellationProofs`, `FailoverProofs`, `PpathStreamsProofs`, `MirrorsProofs`, `TeardownProofs`, `PvcRemapProofs`, `AdmissionProofs` | TLAPS proofs of the module of that name |
| `StandaloneProofs` | TLAPS proofs of `KeyLocker` and `BucketCredentials`, which share no state with other modules (nor with each other: the locker's specification is `LockSpec`) |
| `MC*` | the modules TLC is run on |

The modules share the code's boundary: `Constellation` takes "the path is built"
as one step (`EnsurePpath`) that `PpathStreams` details, and the choice of the
primary as a constant that `Failover` varies; its `Provision` is what `Mirrors`
details and its `Clean` what `Teardown` details; the CR whose life it follows is
written through `Admission`. `Constellation` composes the three controllers that
meet in one constellation, and `Teardown` the parent with one VRC worker per cluster.

### KeyLocker
`locks` is the `sync.Map`, `ref` and `owner` the fields of each `refLock`; `pc`,
`mine` and `key` are the goroutine's locals. `LoadOrStore`, `AddRef`, `MuLock`,
`MuUnlock`, `DropRef` and `Delete` are the six operations between which a
goroutine can be descheduled. Objects are recycled when nothing refers to them,
as garbage collection does.

### Constellation
`kind` is VSCR or VVR: the two controllers run the same protocol, and where they
differ (order of the set-up, what a lost path leads to) an action asks for it.
`vscr`, `fin`, `named`, `setup` are the CR; `ppath` VAST's path; `setup` holds what
the first reconciles have filled in (`ResolvePeers`, `PredictDirs`,
`ResolveTenants`, in the order of the kind); `class`,
`vgr`, `bound` per StorageClass what the VSCR controller and csi-addons made;
`vrc`, `blocks`, `cleaned`, `res` the VRC and what it provisioned. `pc`/`todo`
is the VSCR worker, `opc` the object workers, `cpc` the content workers: each
worker's value is the decision it took from what it read, and the action that
follows carries it out on a state that may have changed. `Crash` forgets all
of them. The loops over StorageClasses run in the code's order. Reads go to the
current state, but in a step of their own, so that a stale informer cache is the
same as a late step. An owner reference whose `blockOwnerDeletion` is unset is
blocking, as the code treats it. `ReadVGR` asks only that the path exists, where
`resolveSourcePPath` asks for more: the model allows more creations than the code.
`Record` and `Held` map the state to `ContentLifecycle`: a VRC is a record, and the
cleanup-done annotation its seal.

### Failover
Starts from an established constellation. `want`/`mode`/`resync` are the spec the
user edits, `cur`/`sync` the status; `spec` and `st` the replica's requested and
reported state; `role` VAST's truth; `call`/`done` csi-addons' call in flight,
with the role the driver read at its start, and what it has acted on. The
reconciler is `StartReconcile` (with `ensurePrimaryStorageClass`), then either
`PatchResync`, `ClearResync`, or `PpathActive`, `EnsureReplicas`, `SyncStates`,
`ReadRole`, `DemoteReplica`, and `Finish` (`reconcileSyncStatus`). The VVR asks the
confirmed primaries for their VAST role one after the other (`ask`), and what it has
asked may change before it demotes. A failed step ends the pass with an error
(`FailStep`), but errors of `ensureVR` and `ensureVGR` are collected while the pass goes on
to the demotion (`EnsureFails`), and so are those of a demotion (`DemoteFails`); the kind of
error decides between the statuses Retrying and Failed (`Fails`). The status is written
in any case: `UpdateStatusWithRetry` sends it again after a conflict. An API server that
refuses it for good, which the deferred function only logs, is not modelled, nor the
status Invalid, which only a CR without finalizer gets (`Admission`).
`NotifiesParent` is the predicate that wakes the parent.

### PpathStreams
`topo` and `primary` are the spec: every topology `Validate` accepts, for every
primary. `policy`, `down` (links whose peer is unhealthy), `visible`, `stream` and
`dir` are what VAST holds, `at`/`k`/`todo` where the set-up is, `k` being the index of
the link at hand in the topology. Each wait is an action enabled by
what it waits for, and `Timeout` otherwise. `MirrorPolicy`, `MirrorPpath` and
`ProgressStream` are VAST; `ClientWrites` and `AdminClears` its users. Stream
names are taken to be distinct after truncation. The first wait is for `streams[0]` of
what VMS returns (`ppath.go:430`): `inOrder` says whether that is the embedded stream, or
any stream of the path (`FirstListed`). The health of the peers is read link by link,
where the code lists them once at the start (`discover_policies.go:179`): the model has
more interleavings, and each outcome is one the code has too.

### Mirrors
A PVC is named by its derivation: `<<v>>` is the user's, `<<v, s>>` its mirror in
StorageClass `s`. `pvc` is the state of each, `obj` and `dir` what each cluster
has, `listed` the VGR's status, `spec` the VRC's spec. `oq` and `cq` are the work
queues: an action sets them exactly where an event gets past the predicates.
`plan` is the list of sources a content worker gathered and goes on using;
`stamp` is set while a second touch would write the value that is already there. `lost` only
records that a trigger was lost for good: a touch that failed or changed nothing,
or mirrors skipped because the cluster was unreachable. Left out: the first
creation of the VRC, the PVs (each goes with its PVC), `syncPVCPV` not set (see
`Teardown`), PVCs recreated under a used name, PVCs without the webhook's label.

### Teardown
Without mirror PVCs the volumes of a secondary are only known from the VRC of the
primary. `kind` is file or block: views are made by the secondary's own pass
(`ClassifyPVCs`), block volumes appear there when VAST replicates them, listed or not
(`ReplicateVolume`). `pvc`, `listed`, `retain` are that source, `vr`, `vrc`, `waited`, `cleaned`
the objects and annotations of each cluster, `path`, `flight`, `snaps`, `vols` what
its VAST holds. `known` records the PVCs that were listed when the parent was deleted. The content worker (`pc`, `found`, `names`) is `CleanVolumes` call
by call: `GetPPath`, `DisablePath`, `WaitAfterPpathDisable`, `DeleteSnapshots`,
`DeletePath`, `AwaitAbsent`, `ListPairs`, `CleanVolumeCb`, then annotation, peers and finalizer. The parent's worker waits for the content and
deletes path and policies in one attempt. `warned` is the CleanupFailed event about a
snapshot, `missed` records on which clusters the deletion of a policy failed itself.
The interval of the wait is taken to be long enough for what was on its way. Each
worker disables the path on its own cluster, and the model assumes of VAST that nothing
new is sent to a cluster from then on, whatever the state of the sender's end (`Replicate`);
the code rests on the same assumption, and `NoSnapshotLeft` would fail without it.
`CleanKubernetesResources` has no action: it looks for labels nobody sets (section 5).
`Record` and `Held` map the state to `ContentLifecycle`, as in `Constellation`: what a
record holds is the path, the snapshots on their way and the snapshots nobody was
warned of. The volumes are left to `NoVolumeLeft`, which excepts those whose PVC the
user deleted and, on a block destination, those replicated before their PVC was listed,
which no worker can know (`Accountable`). The module starts from an established replication, so it refines the
steps of `ContentLifecycle` and not its initial state.

### PvcRemap
One group of siblings, each named by its StorageClass. `Triggers` is
`confirmedPrimaryTransitionPredicate` and `queued` the work queue; the worker reads
the parent (`target`) with the object and its list, the PVCs (`table`) and the pods
(`seen`), and patches one workload at a time, from a copy of its template that lags
(`cached`). Workload controllers replace pods meanwhile (`claim`, `pods`).
`missed` records that the last remap saw no pod of a workload, could not patch it or had
a copy without its own former patch,
`unheard` that the new primary is still confirmed from an earlier time, so that no
transition will follow, while no request is waiting and the worker was last there for
another primary. Workloads in `Standalone` have no owner with such a volume
and are skipped, as in the code.

### BucketCredentials
Credentials are told apart by their bucket. `secret` is the API server's Secret and
`cached` the informer's, `flatSecret` and `flatMap` the flat pair and `seenSecret` and
`seenMap` the informers' copies of it, which `SyncSecrets` and `SyncConfigMaps` bring up to
date; the flattener (`fpc`) and the resync controller (`rpc`) decide from the copies.
Secrets and ConfigMaps are listed and deleted in a round each (`WipeSecrets`,
`WipeConfigMaps`, `PokeFlatSecrets`, `PokeFlatMaps`), object by object as to ownership. A
look at a copy and the call it leads to are one step, since a copy that lags is a look
that is old. The API server refuses to create what exists and to update another version
than the one looked at (`Accepted`), but a deletion by name hits whatever is there. The rollback reads the copy too, and does nothing
when the Secret of its own pass is not in it yet. `stale` and `misled` record that the last pass of one or the other
read a cache that was behind: the events come from another informer, so nothing
need wake it again. Users rename the Secret, set the annotation, recreate the claim,
and create objects under the `*-flat` names (`Foreign`).

### Admission
`obj` is the store, `view` the cache that webhook and controllers read, `coming` the
creations admitted and not stored. A worker's write is admitted (`adm`), then
stored or refused for its version (`fresh`); `Conflict` takes over the version number
of the cached object and sends the old object (`copy`) again. `kept` records the
failover last requested of a CR that the controller has taken on (`TakenOn`).
StorageClasses exist and credentials are right; `Reject` is any other reason for
which `validateOnce` fails.

## 3. Runs

| Run | Shows | Bounds, and why they are enough |
|---|---|---|
| `key_locker` | The counter is exact, the map does not leak, every waiter gets its mutex | 3 goroutines, 1 key, 4 objects: one leaves, one is between load and count, one comes late; keys do not share objects |
| `key_locker_mutex` (violation) | Two goroutines can hold the lock of one key | as above |
| `constellation` | `NoOrphanResources`, `CleanedIsClean`, `NoResourcesAfterVSCR`, `ClassesNamed`, and the refinement `ImplementsLifecycle`, for a VVR | 2 StorageClasses (a primary and a peer at the barrier), one VR deletable by hand and recreated, the path may be lost, one fault or crash anywhere. The theorems remove the bounds and cover the VSCR |
| `constellation_deletion` | csi-addons always finds the PVCs it adopted; every deletion ends | both kinds, 2 StorageClasses, 1 fault, replicas deleted only through their CR (a VGR deleted by hand: section 5) |
| `failover_vscr` | The VSCR completes each failover and leaves the others secondary | 2 clusters, 2 switches (there and back), a resync, a fault, csi-addons may repeat any call |
| `failover_vvr` | The VVR completes each failover, resolves split brain, never demotes the only source, does not lose the wanted source again, and reports the truth: at rest the wanted cluster is the source and at most one replica is a confirmed primary | 3 clusters, so that neither side of a second switch needs to be the first primary; 3 switches, 2 faults, no resync (section 5) |
| `ppath` | The set-up is idempotent, ordered, complete and ends | every topology of two or three clusters that is accepted, up to names, each primary, each kind of leftover directory, an unhealthy peer, streams listed in order of creation or not, 2 faults: one fault can hit the repetition of a cut-off set-up |
| `mirrors` | `MirrorOutlivesSource`, `RecursionOnlyAfterLoss`, `MirrorsConverge` | a primary and a secondary, one volume, both provisioners and reclaim policies, 1 fault: mirrors of different volumes meet only in the retry of a whole reconcile, and a fault at each call or a restart already separates any two steps |
| `teardown` | cleanup-done is true of path, snapshots and volumes; policies go; the parent goes; call by call the cleanup is a refinement of the life cycle (`CleanupKeepsLifecycle`) | a primary and a secondary, one PVC, file and block, both reclaim policies, 1 fault, which cuts an attempt or its repetition off. The theorems remove the bounds of the safety properties |
| `pvc_remap` | A settled state has no workload on an old sibling; the pods follow | 3 siblings, so that a stale table can name a third one; a workload and a pod without owner; both kinds of parent; 2 failovers, so that the second can meet a copy without the patch of the first, 1 fault or eviction |
| `credentials` | Foreign objects are kept; a flattener with nothing to do has left one complete pair of the wanted name, or none; access is granted for the new bucket, the flat pair converges | 2 Secret names, 2 buckets, 2 changes by users, or one and a fault (`MaxEvents`): a rename or a recreation in the middle of a reaction to the other. The theorems remove the bounds of the safety properties |
| `admission` | One owner per StorageClass, failovers kept, deletion unblocked | 2 VSCRs and a VVR around one shared StorageClass, 2 creations, 1 edit, 1 fault. The theorems remove the bounds of the safety properties |

A type invariant is proved for every module; `failover_vscr` and
`credentials` check theirs as well. `CHECK_DEADLOCK FALSE` stands where the system may rest: a settled constellation,
a deleted one, a built path. Each property of a passing run has a mutant of the
code that TLC shows to break it (`mutants` in `PROJECT.json`).

### Fairness
* Workers: weak fairness of each worker's steps. The work queue requeues a
  reconcile that ends in an error or asks for `RequeueAfter`, and one worker per
  object takes it. A live VSCR is *not* assumed to be reconciled without an event.
* csi-addons calls the driver until the call succeeds, and finalizes a
  terminating VGR when it can; VAST ends a graceful failover it began and
  mirrors what it was asked to mirror. `Reattach`, which no code asks for, is
  never assumed.
* `KeyLocker`: goroutines run (weak); `sync.Mutex` hands over to a starving
  waiter (strong fairness of `MuLock`).
* `Mirrors`: queued objects are reconciled; PVCs are bound, volumes replicated,
  lists kept up to date and deleted mirrors reclaimed by components that do not
  stop for good. Users and faults need not act.
* `PpathStreams`: an administrator follows the error message about a non-empty
  directory, and an unhealthy peer recovers. Faults are bounded, time-outs are not.
* `Teardown`: a pass that failed is queued again, csi-addons lets a deleted VR or VGR
  go, a VRC without one is noticed, snapshots land and VAST completes deletions.
* `PvcRemap`: workers and csi-addons as above; workload controllers start and stop
  pods, and the copies of workloads catch up. A promotion takes place although `ensureVR` and `syncVRReplicationStates` may
  change the requested state to and fro meanwhile, since each change queues the VR in
  csi-addons again (strong fairness of `Confirm`).
* `BucketCredentials`: what is queued is taken, the sidecar grants what is not
  granted, the informers catch up (`SyncSecrets`, `SyncConfigMaps`).
* `Admission`: a pass that ends in an error is queued again, the informer delivers.
  `Reject` and users need not act.

### Assumptions of the failover runs
`Patient`: the user edits again only when the status says Completed and nothing is
under way. `Repeat`: csi-addons may repeat a call that has succeeded. The VSCR is
checked with repetition. The VVR is checked without it: with repetition a Promote
repeated on the old primary makes it the source again before its demotion, and
the controller, which follows VAST's role, keeps it. Likewise a user who switches
back before the first switch ended can leave the VVR's two replicas confirming
each other's promotion. These are limits of what the code promises, found by
running the models with the constants changed. An ungraceful failover detaches
both sides; a *graceful* request on a detached path is answered ABORTED until
VAST reattaches it, which the properties except explicitly (`GracefulOnDetached`).

## 4. Proofs

Eight modules hold proofs, each for every value of its constants, so for any number
of clusters, resources, goroutines, failovers and faults. The assumptions are the named
ones of the module (`ConstellationConstants`, `FailoverConstants`, `PpathConstants`,
`MirrorsConstants`, `TeardownConstants`, `PvcRemapConstants`, `AdmissionConstants`,
`KeyLockerConstants`, `BucketCredentialsConstants`), which TLC evaluates in the runs. `Calm` is
`Patient /\ ~Repeat` (section 3, assumptions of the failover runs).

| Module | Theorem | Statement |
|---|---|---|
| `ConstellationProofs` | `TypeCorrect` | `Spec => []TypeOK` |
| | `NoOrphans` | `Spec => []NoOrphanResources` |
| | `CleanupDoneIsTrue` | `Spec => []CleanedIsClean` |
| | `VSCRLeavesNothing` | `Spec => []NoResourcesAfterVSCR` |
| | `CleanupWaitsForVGR` | `ManualDelete = {} /\ Spec => []NoWedgedVGR` |
| | `ClassesAreNamed` | `Spec => []ClassesNamed` |
| | `Implementation` | `Spec => ImplementsLifecycle` |
| `FailoverProofs` | `TypeCorrect` | `Spec => []TypeOK` |
| | `CompletedMeansSource` | `Calm` implies `Spec => []CompletedIsTrue` |
| | `DemotionIsSafe` | `Calm /\ Kind = "VVR"` implies `Spec => DemotionLeavesSource` |
| | `WantedStays` | `Calm` implies `Spec => WantedStaysSource` |
| `PpathStreamsProofs` | `TypeCorrect` | `Spec => []TypeOK` |
| | `StandbysFollow` | `Spec => []StandbyAfterPrimary` |
| | `AllLinksStreamed` | `Spec => []EveryLinkStreamed` |
| | `ActiveIsKept` | `Spec => ActiveStaysActive` |
| `MirrorsProofs` | `TypeCorrect` | `Spec => []TypeOK` |
| | `Guarded` | `Spec => []RecursionOnlyAfterLoss` |
| | `MirrorsAreKept` | `Spec => MirrorOutlivesSource` |
| `TeardownProofs` | `TypeCorrect` | `Spec => []TypeOK` |
| | `SnapshotsRemoved` | `Spec => []NoSnapshotLeft` |
| | `VolumesRemoved` | `Spec => []NoVolumeLeft` |
| | `PoliciesRemoved` | `Spec => []NoPolicyLeft` |
| | `LifecycleKept` | `Spec => CleanupKeepsLifecycle` |
| `PvcRemapProofs` | `TypeCorrect` | `Spec => []TypeOK` |
| | `RemapIsComplete` | `Spec => []SettledIsRemapped` |
| `AdmissionProofs` | `TypeCorrect` | `Spec => []TypeOK` |
| | `AtMostOneOwner` | `Spec => []OneOwner` |
| | `FailoversKept` | `Spec => []EditsKept` |
| `StandaloneProofs` | `LockTypeCorrect` | `LockSpec => []LockTypeOK` |
| | `CountersExact` | `LockSpec => []RefCountExact` |
| | `EntriesDropped` | `LockSpec => []NoLeakedEntry` |
| | `CredTypeCorrect` | `Spec => []TypeOK` (of `BucketCredentials`) |
| | `SettledPair` | `Spec => []FlatSettled` |
| | `ForeignUntouched` | `Spec => ForeignKept` |

None of the properties is inductive. Each inductive invariant was checked by TLC on the
run's instance first; each preservation proof has one lemma or step per action and
under it one step per part of the invariant the action can disturb.

**Constellation.** `IInv` has two parts besides the type invariant. `ContentInv` says
what each control point of a content worker knows: a worker about to provision
belongs to a VRC that is not annotated; one at "annotate" has cleaned and nobody else
can provision for the same VRC; one at "peers" or "finalizer" has an annotated,
terminating VRC. `DeletionInv` says how far `handleDeletion` has come: the VGRs it has
deleted never become live again, because only this worker creates VGRs, so a content
worker that reads its VRC after that does not provision; and from the moment no VRC
was listed everything is `Quiet` (no resources, nobody about to provision) and stays
so, although VRCs can still be created, because their workers find the VGR not live
or the VSCR gone. `WedgeInv` adds that nothing terminates before `handleDeletion`
starts, and that a VRC is cleaned only when its VGR is absent, after which no VGR is
created. `ClassInv` says that the VVR's worker has the name whenever it makes classes.
The refinement `LifeStep` maps every action to a step of `ContentLifecycle` or to a
stutter; it rests on `IInv`, without which a `Provision` could be a `Make` behind a seal.

**Failover.** `CallInv` says that between two edits only the wanted replica is being
promoted or in transition, `RoleInv` that the wanted replica is confirmed only when its
cluster is the source, and that a call which read "source" or "destination" still
reads true. Together they give the heart of the argument (`Promotion`): a step takes
the source role from a cluster only while the wanted cluster is not the source, and
then its promotion is outstanding (`Awaited`). `PassInv` says what a pass leaves behind:
an outstanding promotion, a request for another pass, or at most one confirmed primary,
which is a source (`Clean`). `WorkerInv` says that the wanted cluster is among those still to
be asked for their role until a source is found, and that what is planned to be demoted
leaves a source, `ResyncInv` that a resync meets a settled object. At rest (`Rest`) no promotion is
outstanding, so that the next switch starts from a clean state. The two hypotheses are
needed: without either TLC refutes each of the three properties. `WantedStays` follows from
`Promotion` and `CallInv`: only the wanted replica is being promoted or in transition, and
neither takes the role from its own cluster. The theorems allow any number of
resyncs and, but for the demotion, both kinds; a VSCR demotes the old primary in the
pass that asks for the promotion of the new one, before that is a source.

**PpathStreams.** `StreamInv` says how far the streams of a cut-off set-up can have come:
nothing before the path; a standby stream only behind the primary's stream to the same
target; no further target before the first is active, so that whichever stream VMS lists
first, the embedded one is active when the wait for it ends. `WorkInv` says that the targets
before the one at hand are `Streamed`, which a set-up that starts over establishes again
and no step undoes (`Grows`). `EveryLinkStreamed` then rests on every link being either one
of the primary's or in the cross links of some target, which is what the validation of
the topology gives (`Links`, `PrimaryLinks`).

**Mirrors.** `SourceInv` says that a PVC once in the primary's VRC is listed until it is
gone; `MirrorInv` that a mirror exists only of such a PVC, and that a pass that will look
for orphans has among the PVCs it gathered the source of each mirror there is, or that
source is gone. `LossInv` says that only mirrors of PVCs that are gone lose their label,
are gathered as sources or have mirrors of their own; it needs `MirrorInv`, since it is a
pass with a list from before that takes the label off.

**PvcRemap.** `PassInv` says how far the pass for the primary read last has come when
nothing is queued, `TargetInv` that this primary is the current one. The first attempt at
`TargetInv` failed for a good reason: with three failovers (to b, back to a before the
request of b's confirmation is taken, which is then read as one for a, not confirmed any
more, and dropped, and to b again) the state is settled and not remapped. The history variable `unheard` did not cover it,
and the two failovers of the run do not reach it; it is now set by what makes a failover
unheard, and the theorem shows that there is no other case.

**Teardown.** `PathInv` follows one cluster through `CleanVolumes`: once the wait is
over the path is not enabled and nothing is in flight, and that survives crashes
because the annotation does and nobody enables the path again; a pass that found no
path has none to delete. `VolumeInv` says that the primary lists every PVC that exists,
has a volume anywhere and is accountable, that its VRC goes only after every cluster has cleaned up,
and hence that a secondary that has read the list knows all these volumes. `OwnerInv`
says that what was listed when the parent was deleted stays listed while it exists, and that past the wait of `handleDeletion` every cluster is `Gone`, which with
`PathInv` means that no path is left to keep a policy in use. The refinement `LifeStep`
maps every action to a step of `ContentLifecycle` or to a stutter. It needed one more fact: a
path that a pass found and is about to disable has not been deleted by anybody else
meanwhile, without which `DisablePath` would bring it back, and with it something held
behind the seal (`HeldIsOpen`: nothing is held behind cleanup-done).

**Admission.** A worker whose write is admitted and whose version is the stored one
claims its StorageClasses as an owner does (`Claims`). `ClaimsApart` says that no two
VSCRs claim one StorageClass: the webhook that admits the second sees the first,
because `CRInv` says that the cache shows every owner and everyone who holds the stored
version. `CRInv` also says that a CR that was taken on has no write under way, which
is what keeps a failover.

**KeyLocker.** `OneKey` and `MapKey` say that an object belongs to one key, also after it
left the map; `Backed` that an object in the map has a goroutine that will decrement
its counter and remove it; `Inside` what a goroutine at each point refers to.

**BucketCredentials.** `Owed` says that the flattener will look again: the BA is queued, or
an informer has still to tell of a flat object. `StrayInv` says that what a pass does not
want, credentials under other names than the one it has read, in the store or in a copy,
is gone or owed, because only the pass writes credentials; the copies belong to it, since
a pass deletes what its copy shows. `PairInv` says that whatever makes the work of a pass
outdated (another name, another Secret, a flat object deleted by the resync controller)
queues the BA again or is owed. Everybody else only deletes flat objects (`OnlyDeletes`),
which is told of. `ForeignKept` follows from the single steps with `CredInv`. `PassTypes`, that a
pass which goes on has a name and parsed credentials, is where "no name" must not be a name.

Only model-checked: all liveness (`DeletionCompletes`, `TeardownCompletes`,
`FailoverCompletes`, `SplitBrainResolved`, `OthersSecondary`, `SetupCompletes`,
`EveryLockIsGranted`, `MirrorsConverge`, `PodsConverge`, `GrantConverges`,
`FlatConverges`, `DeletionUnblocked`), which needs fairness and ENABLED, out of the
prover's reach, and the violation. Every safety property of a passing run has a theorem.

## 5. Disagreements found

The locker's race is a violation run and a finding in `PROJECT.json`. The other places
where the code does not do what a comment or a document says, each met while
modelling and reached by the model that is named, are these.

Life cycle (`Constellation`, `Teardown`)
* `validateOnce` runs only in the pass that added the finalizer
  (`vaststorageclassreplication_controller.go:113`). After a restart in between nobody
  asks whether a path of that name exists, which according to 453-456 "the user must
  remove manually".
* `countOwnedVGRs` counts a VGR whose read failed as gone; harmless for the
  resources, as `VSCRLeavesNothing` shows with such errors included.
* A path lost outside and a replication class created in the same reconcile of a VSCR
  give a class with an empty path name, which is immutable. The VVR builds the path
  anew first (`ClassesAreNamed`).
* `vastvolumereplication_controller.go:503-504` says of `ppathName` that it "is non-empty
  only for the primary StorageClass"; every class gets it.
* A VRC created after `handleDeletion` listed none stays without a parent (with
  nothing provisioned).
* A failed deletion of the path or of a policy is logged and the finalizer removed.
* Without `syncPVCPV`, `file.go:164-166` says views are removed "for PVCs no longer in the
  source list"; the lookup goes through managed mirrors (`file.go:238`, `block.go:216`),
  which do not exist then, and the volumes stay until the teardown, which only knows
  those of PVCs that still exist. `NoVolumeLeft` is stated for these.
* `CleanKubernetesResources` lists VRs and VGRs by labels nobody sets (`base.go:979`).
* The cleanup waits until the VGR is gone, because csi-addons "needs the mirror PVCs to
  exist" (`vastreplicationcontent_controller.go:91-95`). When a user deletes a VGR, the VSCR
  recreates it, and if that happens between the look at the parent and the cleanup of the
  old VRC, the PVCs go that csi-addons has adopted for the new one: with
  `ManualDelete = {1}` TLC shows `NoWedgedVGR` violated.
* Block volumes replicated to a secondary before their PVC is listed are not deleted
  by its cleanup (`NoVolumeLeft` is stated for the others).

Failover
* `extensions-controller/README.md:480-482` promises that a resync is forwarded to the
  VGR; `ensureVGR` (`:777`) restores Primary over any other state in each pass, so the
  VSCR may overwrite it before csi-addons has acted.
* `vastvolumereplication_controller.go:742-743` lets a failover override a resync, but only
  in the pass that detected the switch (`:764`). When that pass fails after the status was
  written, the promotion is never made: with `Kind = "VVR"`, `N = 2`, `MaxResyncs = 1`,
  `MaxFaults = 1` and graceful switches TLC shows `FailoverCompletes` violated.
* `syncVGRReplicationStates` says it asks VAST for the role of each candidate; the
  VSCR's version compares with `spec.primaryStorageClass` only (the VVR's asks).

Set-up of the path (`PpathStreams`)
* The types call the topology an "undirected replication mesh" that "must be complete"
  (`vaststorageclassreplication_types.go:107-108`). The VSCR's `Validate` does not check
  completeness, and a cross link declared towards the secondary that comes first never
  gets its standby stream (`ppath.go:538`). Such topologies are accepted and wait for
  ever; `SetupCompletes` is stated for the others (`Buildable`).
* "All stream additions are idempotent — safe to call on every reconcile": they are, but
  a repeated set-up waits for `streams[0]` to be active before it adds the standby streams
  (`ppath.go:430`). Should VMS list another stream first, one that was added and lacks its
  standby, every repetition times out: without `inOrder` in its antecedent TLC shows
  `SetupCompletes` violated.
* `handlePathOnPeerExists` never deletes a non-empty path, says its comment, but it
  counts the children in one call and deletes in the next.

Mirrors
* "Controller-created mirror PVCs are silently skipped so they can never
  recursively trigger further mirroring" (`base.go:362-363`): with Retain, the default
  policy, an orphaned mirror loses its label while its VRC still lists it, and the
  primary's VRC, reconciled then, mirrors it. What holds with both policies is that a
  mirror is mirrored only after the user's PVC is gone (`RecursionOnlyAfterLoss`).
* The secondaries "must be triggered immediately" (`replication_object_controller.go:330`):
  a failed touch is never repeated, a second touch in the same second is no event, and a
  network error in `hasVolume` skips the mirrors and reports success (`base.go:633`). All
  three are excepted by `lost`.
* `ensureView` defers a view "while still allowing mirror PVC creation to proceed"
  (`file.go:347-349`): the error ends `ProvisionVolumes` before the mirrors.
* "The mirrored PVC uses the same volume handle as the source PV" (`base.go:607`): after a
  PVC was recreated under its name `EnsurePVC` keeps the old mirror, whose PV has the
  former handle (read from the code; names are not used again in the model).

Remap and credentials (`PvcRemap`, `BucketCredentials`)
* "A pod using ANY sibling PVC is always patched" (`pvcremap_controller.go:41`): a workload
  that has no pod at the moment of the scan (`:317`) is passed over, one whose patch fails
  is only logged (`:360`), one whose cached template (`:484`) is older than the controller's
  own former patch is taken to be right; nothing scans again (`missed`).
* For the same reason a failover back to a StorageClass whose replica was never demoted
  leaves the workloads where a remap for another primary has put them, or where they
  were (`unheard`).
* "Standalone Pods — delete + recreate" (`:56`): they are skipped.
* The event that wakes the flattener comes from a metadata-only watch
  (`credentials_flattener_controller.go:100`), and the Secret is read from another informer: a
  pass that reads the former one writes nothing new and is not woken again (`stale`).
* `ba_secret_resync_controller.go:88` finds the mismatch in a cached Secret and deletes by
  name; if a fresh Secret goes and the status write then fails, the retry may be satisfied
  by the cached fresh one, and the BucketAccess stays granted without a Secret (`misled`).
* "design says never adopt/overwrite foreign" (`credentials_flattener_controller.go:214`):
  foreign objects are neither (`ForeignUntouched`), but one that took the place of an
  owned object can be deleted while the copy still shows the owned one.
* The flattener's rollback is there so that clients never see credentials without the
  matching `BUCKET_*` values; a restart between the two writes shows them until the next pass.

Webhook (`Admission`)
* "Each StorageClass may appear in at most one VSCR; VVRs may reuse SCs" (57-58): two
  creations may both be admitted, and an UPDATE of a VSCR, failover included, is refused
  while a VVR shares a class. `AtMostOneOwner` is what does hold.
* Peers that were found are said to be written back as a defaulting mutation (55-56),
  but `Handle` drops the patch; the controller writes them later.
* After a conflict the controllers resend the whole object they had read
  (`client.go:104`): a failover requested while the finalizer or the peers are being
  written is lost. `FailoversKept` holds once both are there.

## 6. Scope

### Hazards without a property
Hazards whose outcome a model reaches and a property has to except are in section 5 and,
with a note and no property, in `PROJECT.json`. The following were seen in the code and
are not covered, because nothing in the repository promises the contrary or the detail is
abstracted:
* the path is deleted in one attempt, and not at all when `status.ppathName` was reset
  (`vaststorageclassreplication_controller.go:527`);
* stream names are clipped (`ppath.go:54`): names are distinct in the model;
* `syncProvisionMeta` copies `spec.pvcs` to `status.pvcs` before the volumes are
  provisioned (`vastreplicationcontent_controller.go:214`), so a failed pass forgets what
  was to be deleted; without mirrors nothing is deleted through it anyway;
* the primary's content worker can create the block volume of a PVC deleted meanwhile
  (`block.go:264`);
* detaching strips the labels of the PVC before those of the PV (`base.go:830`);
* StatefulSets with `volumeClaimTemplates` have nothing to patch (`pvcremap_controller.go:483`);
* a VR recreated by hand after a failover gets the source PVC as data source of the new
  primary (`vastvolumereplication_controller.go:667`);
* once a StorageClass is deleted the webhook refuses every update of its CR, the one that
  removes the finalizer included (`vast_replication_crd_validation_webhook.go:428`);
* a peer is resolved by its name on both sides (`peer_resolution.go:188`);
* after a failover the deletion of the old source PVC makes the new primary's mirror an orphan;
* `refresh_auth_token` looks for a token only when it had to wait
  (`vms_session.py:271-280`): a worker whose request failed with the old token clears the
  new one and fetches another.

### Not modelled
* The driver's NFS, block, volume group and COSI plugins and its VMS session: request
  handlers that run to completion over VAST and the node's kernel. What the
  control plane sees of them (volumes bound and deleted, groups adopted, roles switched,
  replication disabled, access granted) is in the modules above.
* The gRPC server and the bucket parameters webhook: lookups and copies without state.
* Object builders, events, logging, metrics, generated code, charts, scripts, argument
  parsing: no state, or output only.

`components` in `PROJECT.json` gives a reason for each part.

### What could follow
1. The volumes in the refinement of `Teardown`, which needs a record of what users orphan.
2. The token refresh of the driver's session.
