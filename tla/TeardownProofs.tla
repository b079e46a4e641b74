--------------------------- MODULE TeardownProofs ---------------------------
(***************************************************************************)
(* What holds of Teardown for any number of clusters, PVCs and faults:      *)
(* cleanup-done means that path and snapshots are gone, no secondary leaves *)
(* a volume behind because the primary was quicker, and no policy outlives  *)
(* the parent because a path still used it.                                 *)
(***************************************************************************)
EXTENDS Teardown, TLAPS

\* The control points at which the wait, the snapshots, the path and the list of
\* volumes lie behind the worker.
AfterWait == {"snapshots", "delete", "absent", "list", "volumes", "annotate"}
AfterSnapshots == AfterWait \ {"snapshots"}
AfterPath == {"list", "volumes", "annotate"}
AfterVolumes == {"annotate"}

\* A path is never enabled again, so once its snapshots were waited for no other
\* comes.  A pass that has not seen the path finds it gone, and nobody deletes a path
\* that a pass is about to disable.
PathInv(c) ==
  /\ waited[c] => path[c] # "on" /\ ~flight[c]
  /\ pc[c] = "wait" => path[c] # "on"
  /\ pc[c] \in AfterWait \/ cleaned[c] => waited[c]
  /\ pc[c] \in AfterSnapshots \/ cleaned[c] => (snaps[c] => warned[c])
  /\ pc[c] = "disable" => found[c] /\ path[c] \in {"on", "off"}
  /\ pc[c] \in {"wait", "snapshots"} /\ ~found[c] => path[c] = "none"
  /\ pc[c] \in AfterPath \/ cleaned[c] => path[c] = "none"

\* The primary lists every PVC that has a volume anywhere, still exists and is to be
\* accounted for, its VRC goes last, and a secondary that has read the list knows all
\* these volumes.
VolumeInv(c) ==
  /\ pc[c] = "create" \/ vrc[c] = "live" => ~cleaned[c]
  /\ pc[c] \in {"peers", "finalizer"} \/ vrc[c] = "absent" => cleaned[c]
  /\ pc[c] = "finalizer" \/ vrc[c] = "absent" =>
       \A d \in Clusters : cleaned[d]
  /\ c = Primary => pc[c] # "create" /\ \A p \in vols[c] : pvc[p] = "bound"
  /\ c # Primary => \A p \in vols[c] \cup names[c] :
       pvc[p] \in {"bound", "gone"} /\ (p \in Bound(Accountable) => p \in listed)
  /\ ~retain /\ c # Primary =>
       /\ pc[c] = "volumes" => vols[c] \cap Bound(Accountable) \subseteq names[c]
       /\ pc[c] \in AfterVolumes \/ cleaned[c] => vols[c] \cap Bound(Accountable) = {}

\* The parent waits for every cluster, and what has gone does not come back.  Until it
\* is deleted nothing goes, and a PVC it has listed by then stays listed.
Gone(c) == ~vr[c] /\ vrc[c] = "absent"
Standing(c) == vr[c] /\ vrc[c] = "live"

OwnerInv ==
  /\ parent = "live" => \A c \in Clusters : Standing(c)
  /\ \A p \in known \cup listed : pvc[p] # "none"
  /\ \A p \in known : pvc[p] \in {"pending", "bound"} => p \in listed
  /\ parent \in Finale \cup {"gone"} => \A c \in Clusters : Gone(c)
  /\ parent \in {"finalizer", "gone"} => policies \subseteq missed

IInv == TypeOK /\ OwnerInv /\ \A c \in Clusters : PathInv(c) /\ VolumeInv(c)

\* The parts of a cluster that the step of another one leaves alone.
Same(d) ==
  /\ vr'[d] = vr[d] /\ vrc'[d] = vrc[d] /\ waited'[d] = waited[d] /\ cleaned'[d] = cleaned[d]
  /\ path'[d] = path[d] /\ flight'[d] = flight[d] /\ snaps'[d] = snaps[d]
  /\ vols'[d] = vols[d] /\ pc'[d] = pc[d] /\ found'[d] = found[d]
  /\ names'[d] = names[d] /\ warned'[d] = warned[d]

-----------------------------------------------------------------------------

\* The step of a cluster preserves the invariant when it does so for that cluster
\* and does not take cleanup-done back.
LEMMA OneCluster ==
  ASSUME IInv, NEW c \in Clusters, TypeOK', UNCHANGED <<source, owner>>,
         \A d \in Clusters : d # c => Same(d),
         cleaned[c] => cleaned'[c], Gone(c) => Gone(c)', parent = "live" => Standing(c)',
         PathInv(c)', VolumeInv(c)'
  PROVE  IInv'
<1>1. \A d \in Clusters : cleaned[d] => cleaned'[d]
  BY DEF Same
<1>2. ASSUME NEW d \in Clusters, d # c PROVE PathInv(d)' /\ VolumeInv(d)'
  <2>1. Same(d) /\ PathInv(d) /\ VolumeInv(d)
    BY <1>2 DEF IInv
  <2>2. PathInv(d)'
    BY <2>1 DEF Same, PathInv
  <2>3. VolumeInv(d)'
    BY <1>1, <2>1 DEF Same, VolumeInv, source, owner, Bound, Accountable
  <2> QED
    BY <2>2, <2>3
<1>3. OwnerInv'
  <2>1. \A d \in Clusters : Gone(d) => Gone(d)'
    BY DEF Same, Gone
  <2>2. parent = "live" => \A d \in Clusters : Standing(d)'
    BY DEF Same, Standing, IInv, OwnerInv
  <2> QED
    BY <2>1, <2>2 DEF IInv, OwnerInv, owner, source
<1> QED
  BY <1>2, <1>3 DEF IInv

\* A pass that ends early keeps what it has done.
LEMMA EndStep ==
  ASSUME IInv, NEW c \in Clusters, pc[c] # "idle", EndPass(c),
         UNCHANGED <<source, content, cluster, warned, owner>>, faults' \in 0..MaxFaults
  PROVE  IInv'
<1> USE DEF IInv, EndPass, Go, content, cluster, owner
<1>1. TypeOK'
  BY DEF TypeOK, source, Cleaning
<1>2. \A d \in Clusters : d # c => Same(d)
  BY DEF TypeOK, Same
<1>3. PathInv(c)'
  BY DEF TypeOK, PathInv, AfterWait, AfterSnapshots, AfterPath
<1>4. VolumeInv(c)'
  BY DEF TypeOK, VolumeInv, AfterVolumes, source, Bound, Accountable
<1>5. (Gone(c) => Gone(c)') /\ (parent = "live" => Standing(c)')
  BY DEF TypeOK, Gone, Standing, OwnerInv, VolumeInv
<1> QED
  BY <1>1, <1>2, <1>3, <1>4, <1>5, OneCluster

-----------------------------------------------------------------------------
(* One lemma per action of a cluster.                                       *)

LEMMA DisableVolumeReplicationStep ==
  ASSUME IInv, NEW c \in Clusters, DisableVolumeReplication(c)
  PROVE  IInv'
<1> USE DEF IInv, DisableVolumeReplication, Go, source, content, cluster, worker, owner
<1>1. TypeOK'
  BY DEF TypeOK, Cleaning
<1>2. \A d \in Clusters : d # c => Same(d)
  BY DEF TypeOK, Same
<1>3. PathInv(c)'
  BY DEF TypeOK, PathInv, AfterWait, AfterSnapshots, AfterPath
<1>4. VolumeInv(c)'
  BY DEF TypeOK, VolumeInv, AfterVolumes, Bound, Accountable, Cleaning
<1>5. (Gone(c) => Gone(c)') /\ (parent = "live" => Standing(c)')
  BY DEF TypeOK, Gone, Standing, OwnerInv, VolumeInv
<1> QED
  BY <1>1, <1>2, <1>3, <1>4, <1>5, OneCluster DEF TypeOK

LEMMA SelfDestructStep ==
  ASSUME IInv, NEW c \in Clusters, SelfDestruct(c)
  PROVE  IInv'
<1> USE DEF IInv, SelfDestruct, Go, source, content, cluster, worker, owner
<1>1. TypeOK'
  BY DEF TypeOK, Cleaning
<1>2. \A d \in Clusters : d # c => Same(d)
  BY DEF TypeOK, Same
<1>3. PathInv(c)'
  BY DEF TypeOK, PathInv, AfterWait, AfterSnapshots, AfterPath
<1>4. VolumeInv(c)'
  BY DEF TypeOK, VolumeInv, AfterVolumes, Bound, Accountable, Cleaning
<1>5. (Gone(c) => Gone(c)') /\ (parent = "live" => Standing(c)')
  BY DEF TypeOK, Gone, Standing, OwnerInv, VolumeInv
<1> QED
  BY <1>1, <1>2, <1>3, <1>4, <1>5, OneCluster DEF TypeOK

LEMMA ReplicateStep ==
  ASSUME IInv, NEW c \in Clusters, Replicate(c)
  PROVE  IInv'
<1> USE DEF IInv, Replicate, Go, source, content, cluster, worker, owner
<1>1. TypeOK'
  BY DEF TypeOK, Cleaning
<1>2. \A d \in Clusters : d # c => Same(d)
  BY DEF TypeOK, Same
<1>3. PathInv(c)'
  BY DEF TypeOK, PathInv, AfterWait, AfterSnapshots, AfterPath
<1>4. VolumeInv(c)'
  BY DEF TypeOK, VolumeInv, AfterVolumes, Bound, Accountable, Cleaning
<1>5. (Gone(c) => Gone(c)') /\ (parent = "live" => Standing(c)')
  BY DEF TypeOK, Gone, Standing, OwnerInv, VolumeInv
<1> QED
  BY <1>1, <1>2, <1>3, <1>4, <1>5, OneCluster DEF TypeOK

LEMMA ReplicateVolumeStep ==
  ASSUME IInv, NEW c \in Clusters, ReplicateVolume(c)
  PROVE  IInv'
<1> USE DEF IInv, source, content, cluster, worker, owner
<1>1. PICK p \in vols[Primary] : vols' = [vols EXCEPT ![c] = @ \cup {p}]
  BY DEF ReplicateVolume
<1>2. p \in PVCs /\ pvc[p] = "bound"
  BY TeardownConstants DEF TeardownConstants, TypeOK, VolumeInv
<1>3. TypeOK'
  <2>1. vols' \in [Clusters -> SUBSET PVCs]
    BY <1>1, <1>2 DEF TypeOK
  <2> QED
    BY <2>1 DEF ReplicateVolume, TypeOK
<1>4. \A d \in Clusters : d # c => Same(d)
  BY <1>1 DEF ReplicateVolume, TypeOK, Same
<1>5. PathInv(c)'
  BY DEF ReplicateVolume, PathInv
<1>6. VolumeInv(c)'
  <2>1. vols'[c] = vols[c] \cup {p}
    BY <1>1 DEF TypeOK
  <2>2. ~cleaned[c] /\ pc[c] \notin {"volumes"} \cup AfterVolumes
    BY DEF ReplicateVolume, PathInv, AfterWait, AfterVolumes
  <2>3. p \in Accountable => p \in listed
    BY <1>2 DEF ReplicateVolume, Accountable, OwnerInv
  <2>4. UNCHANGED <<Accountable, retain, pc, cleaned, vrc, names, pvc, listed>>
    BY DEF ReplicateVolume, Accountable
  <2> QED
    BY <1>2, <2>1, <2>2, <2>3, <2>4 DEF ReplicateVolume, VolumeInv, AfterVolumes, Bound
<1>7. (Gone(c) => Gone(c)') /\ (parent = "live" => Standing(c)')
  BY DEF ReplicateVolume, Gone, Standing, OwnerInv
<1> QED
  BY <1>3, <1>4, <1>5, <1>6, <1>7, OneCluster DEF ReplicateVolume

LEMMA LandStep ==
  ASSUME IInv, NEW c \in Clusters, Land(c)
  PROVE  IInv'
<1> USE DEF IInv, Land, Go, source, content, cluster, worker, owner
<1>1. TypeOK'
  BY DEF TypeOK, Cleaning
<1>2. \A d \in Clusters : d # c => Same(d)
  BY DEF TypeOK, Same
<1>3. PathInv(c)'
  BY DEF TypeOK, PathInv, AfterWait, AfterSnapshots, AfterPath
<1>4. VolumeInv(c)'
  BY DEF TypeOK, VolumeInv, AfterVolumes, Bound, Accountable, Cleaning
<1>5. (Gone(c) => Gone(c)') /\ (parent = "live" => Standing(c)')
  BY DEF TypeOK, Gone, Standing, OwnerInv, VolumeInv
<1> QED
  BY <1>1, <1>2, <1>3, <1>4, <1>5, OneCluster DEF TypeOK

LEMMA PathGoneStep ==
  ASSUME IInv, NEW c \in Clusters, PathGone(c)
  PROVE  IInv'
<1> USE DEF IInv, PathGone, Go, source, content, cluster, worker, owner
<1>1. TypeOK'
  BY DEF TypeOK, Cleaning
<1>2. \A d \in Clusters : d # c => Same(d)
  BY DEF TypeOK, Same
<1>3. PathInv(c)'
  BY DEF TypeOK, PathInv, AfterWait, AfterSnapshots, AfterPath
<1>4. VolumeInv(c)'
  BY DEF TypeOK, VolumeInv, AfterVolumes, Bound, Accountable, Cleaning
<1>5. (Gone(c) => Gone(c)') /\ (parent = "live" => Standing(c)')
  BY DEF TypeOK, Gone, Standing, OwnerInv, VolumeInv
<1> QED
  BY <1>1, <1>2, <1>3, <1>4, <1>5, OneCluster DEF TypeOK

LEMMA ClassifyPVCsStep ==
  ASSUME IInv, NEW c \in Clusters, ClassifyPVCs(c)
  PROVE  IInv'
<1> USE DEF IInv, ClassifyPVCs, Go, source, content, cluster, worker, owner
<1>1. TypeOK'
  <2>1. Bound(listed) \in SUBSET PVCs
    BY DEF TypeOK, Bound
  <2> QED
    BY <2>1 DEF TypeOK, Cleaning
<1>2. \A d \in Clusters : d # c => Same(d)
  BY DEF TypeOK, Same
<1>3. PathInv(c)'
  BY DEF TypeOK, PathInv, AfterWait, AfterSnapshots, AfterPath
<1>4. VolumeInv(c)'
  BY DEF TypeOK, VolumeInv, AfterVolumes, Bound, Accountable, Cleaning
<1>5. (Gone(c) => Gone(c)') /\ (parent = "live" => Standing(c)')
  BY DEF TypeOK, Gone, Standing, OwnerInv, VolumeInv
<1> QED
  BY <1>1, <1>2, <1>3, <1>4, <1>5, OneCluster DEF TypeOK

LEMMA SyncVolumesStep ==
  ASSUME IInv, NEW c \in Clusters, SyncVolumes(c)
  PROVE  IInv'
<1> USE DEF IInv, SyncVolumes, Go, source, content, cluster, worker, owner, EndPass
<1>1. TypeOK'
  BY DEF TypeOK, Cleaning
<1>2. \A d \in Clusters : d # c => Same(d)
  BY DEF TypeOK, Same
<1>3. PathInv(c)'
  BY DEF TypeOK, PathInv, AfterWait, AfterSnapshots, AfterPath
<1>4. VolumeInv(c)'
  BY DEF TypeOK, VolumeInv, AfterVolumes, Bound, Accountable, Cleaning
<1>5. (Gone(c) => Gone(c)') /\ (parent = "live" => Standing(c)')
  BY DEF TypeOK, Gone, Standing, OwnerInv, VolumeInv
<1> QED
  BY <1>1, <1>2, <1>3, <1>4, <1>5, OneCluster DEF TypeOK

LEMMA StartStep ==
  ASSUME IInv, NEW c \in Clusters, Start(c)
  PROVE  IInv'
<1> USE DEF IInv, Start, Go, source, content, cluster, worker, owner
<1>1. TypeOK'
  BY DEF TypeOK, Cleaning
<1>2. \A d \in Clusters : d # c => Same(d)
  BY DEF TypeOK, Same
<1>3. PathInv(c)'
  BY DEF TypeOK, PathInv, AfterWait, AfterSnapshots, AfterPath
<1>4. VolumeInv(c)'
  BY DEF TypeOK, VolumeInv, AfterVolumes, Bound, Accountable, Cleaning
<1>5. (Gone(c) => Gone(c)') /\ (parent = "live" => Standing(c)')
  BY DEF TypeOK, Gone, Standing, OwnerInv, VolumeInv
<1> QED
  BY <1>1, <1>2, <1>3, <1>4, <1>5, OneCluster DEF TypeOK

LEMMA GetPPathStep ==
  ASSUME IInv, NEW c \in Clusters, GetPPath(c)
  PROVE  IInv'
<1> USE DEF IInv, GetPPath, Go, source, content, cluster, worker, owner
<1>1. TypeOK'
  BY DEF TypeOK, Cleaning
<1>2. \A d \in Clusters : d # c => Same(d)
  BY DEF TypeOK, Same
<1>3. PathInv(c)'
  BY DEF TypeOK, PathInv, AfterWait, AfterSnapshots, AfterPath
<1>4. VolumeInv(c)'
  BY DEF TypeOK, VolumeInv, AfterVolumes, Bound, Accountable, Cleaning
<1>5. (Gone(c) => Gone(c)') /\ (parent = "live" => Standing(c)')
  BY DEF TypeOK, Gone, Standing, OwnerInv, VolumeInv
<1> QED
  BY <1>1, <1>2, <1>3, <1>4, <1>5, OneCluster DEF TypeOK

LEMMA DisablePathStep ==
  ASSUME IInv, NEW c \in Clusters, DisablePath(c)
  PROVE  IInv'
<1> USE DEF IInv, DisablePath, Go, source, content, cluster, worker, owner
<1>1. TypeOK'
  BY DEF TypeOK, Cleaning
<1>2. \A d \in Clusters : d # c => Same(d)
  BY DEF TypeOK, Same
<1>3. PathInv(c)'
  BY DEF TypeOK, PathInv, AfterWait, AfterSnapshots, AfterPath
<1>4. VolumeInv(c)'
  BY DEF TypeOK, VolumeInv, AfterVolumes, Bound, Accountable, Cleaning
<1>5. (Gone(c) => Gone(c)') /\ (parent = "live" => Standing(c)')
  BY DEF TypeOK, Gone, Standing, OwnerInv, VolumeInv
<1> QED
  BY <1>1, <1>2, <1>3, <1>4, <1>5, OneCluster DEF TypeOK

LEMMA WaitAfterPpathDisableStep ==
  ASSUME IInv, NEW c \in Clusters, WaitAfterPpathDisable(c)
  PROVE  IInv'
<1> USE DEF IInv, WaitAfterPpathDisable, Go, source, content, cluster, worker, owner
<1>1. TypeOK'
  BY DEF TypeOK, Cleaning
<1>2. \A d \in Clusters : d # c => Same(d)
  BY DEF TypeOK, Same
<1>3. PathInv(c)'
  BY DEF TypeOK, PathInv, AfterWait, AfterSnapshots, AfterPath
<1>4. VolumeInv(c)'
  BY DEF TypeOK, VolumeInv, AfterVolumes, Bound, Accountable, Cleaning
<1>5. (Gone(c) => Gone(c)') /\ (parent = "live" => Standing(c)')
  BY DEF TypeOK, Gone, Standing, OwnerInv, VolumeInv
<1> QED
  BY <1>1, <1>2, <1>3, <1>4, <1>5, OneCluster DEF TypeOK

LEMMA DeleteSnapshotsStep ==
  ASSUME IInv, NEW c \in Clusters, DeleteSnapshots(c)
  PROVE  IInv'
<1> USE DEF IInv, DeleteSnapshots, Go, source, content, cluster, worker, owner, Fault
<1>1. TypeOK'
  <2>1. faults' \in 0..MaxFaults
    BY TeardownConstants DEF TypeOK, TeardownConstants
  <2>2. snaps' \in [Clusters -> BOOLEAN] /\ warned' \in [Clusters -> BOOLEAN]
    BY DEF TypeOK
  <2> QED
    BY <2>1, <2>2 DEF TypeOK, Cleaning
<1>2. \A d \in Clusters : d # c => Same(d)
  BY DEF TypeOK, Same
<1>3. PathInv(c)'
  BY DEF TypeOK, PathInv, AfterWait, AfterSnapshots, AfterPath
<1>4. VolumeInv(c)'
  BY DEF TypeOK, VolumeInv, AfterVolumes, Bound, Accountable, Cleaning
<1>5. (Gone(c) => Gone(c)') /\ (parent = "live" => Standing(c)')
  BY DEF TypeOK, Gone, Standing, OwnerInv, VolumeInv
<1> QED
  BY <1>1, <1>2, <1>3, <1>4, <1>5, OneCluster DEF TypeOK

LEMMA DeletePathStep ==
  ASSUME IInv, NEW c \in Clusters, DeletePath(c)
  PROVE  IInv'
<1> USE DEF IInv, DeletePath, Go, source, content, cluster, worker, owner
<1>1. TypeOK'
  BY DEF TypeOK, Cleaning
<1>2. \A d \in Clusters : d # c => Same(d)
  BY DEF TypeOK, Same
<1>3. PathInv(c)'
  BY DEF TypeOK, PathInv, AfterWait, AfterSnapshots, AfterPath
<1>4. VolumeInv(c)'
  BY DEF TypeOK, VolumeInv, AfterVolumes, Bound, Accountable, Cleaning
<1>5. (Gone(c) => Gone(c)') /\ (parent = "live" => Standing(c)')
  BY DEF TypeOK, Gone, Standing, OwnerInv, VolumeInv
<1> QED
  BY <1>1, <1>2, <1>3, <1>4, <1>5, OneCluster DEF TypeOK

LEMMA AwaitAbsentStep ==
  ASSUME IInv, NEW c \in Clusters, AwaitAbsent(c)
  PROVE  IInv'
<1> USE DEF IInv, AwaitAbsent, Go, source, content, cluster, worker, owner
<1>1. TypeOK'
  BY DEF TypeOK, Cleaning
<1>2. \A d \in Clusters : d # c => Same(d)
  BY DEF TypeOK, Same
<1>3. PathInv(c)'
  BY DEF TypeOK, PathInv, AfterWait, AfterSnapshots, AfterPath
<1>4. VolumeInv(c)'
  BY DEF TypeOK, VolumeInv, AfterVolumes, Bound, Accountable, Cleaning
<1>5. (Gone(c) => Gone(c)') /\ (parent = "live" => Standing(c)')
  BY DEF TypeOK, Gone, Standing, OwnerInv, VolumeInv
<1> QED
  BY <1>1, <1>2, <1>3, <1>4, <1>5, OneCluster DEF TypeOK

LEMMA ListPairsStep ==
  ASSUME IInv, NEW c \in Clusters, ListPairs(c)
  PROVE  IInv'
<1> USE DEF IInv, ListPairs, Go, source, content, cluster, worker, owner
<1>1. TypeOK'
  <2>1. Bound(listed) \in SUBSET PVCs
    BY DEF TypeOK, Bound
  <2>2. names' \in [Clusters -> SUBSET PVCs]
    BY <2>1 DEF TypeOK
  <2> QED
    BY <2>2 DEF TypeOK, Cleaning
<1>2. \A d \in Clusters : d # c => Same(d)
  BY DEF TypeOK, Same
<1>3. PathInv(c)'
  BY DEF TypeOK, PathInv, AfterWait, AfterSnapshots, AfterPath
<1>4. VolumeInv(c)'
  <2>1. ~cleaned[c] /\ vrc[c] = "terminating"
    BY DEF TypeOK, Cleaning
  <2>2. vrc[Primary] # "absent"
    BY <2>1, TeardownConstants DEF TeardownConstants, VolumeInv
  <2>3. names'[c] = IF retain \/ c = Primary THEN {} ELSE Bound(listed)
    BY <2>2 DEF TypeOK
  <2>4. pc'[c] = "volumes"
    BY DEF TypeOK
  <2> QED
    <3>1. Accountable \subseteq PVCs /\ UNCHANGED <<Accountable, retain, cleaned, vrc, vols, pvc, listed>>
      BY DEF Accountable, TypeOK
    <3>2. ASSUME ~retain, c # Primary, NEW p \in vols[c] \cap Bound(Accountable)
          PROVE  p \in names'[c]
      BY <2>3, <3>2 DEF VolumeInv, Bound
    <3>3. \A p \in names'[c] : pvc[p] = "bound" /\ p \in listed
      BY <2>3 DEF Bound
    <3>4. Bound(Accountable)' = Bound(Accountable)
      BY <3>1 DEF Bound
    <3> QED
      BY <2>1, <2>4, <3>1, <3>2, <3>3, <3>4 DEF VolumeInv, AfterVolumes
<1>5. (Gone(c) => Gone(c)') /\ (parent = "live" => Standing(c)')
  BY DEF TypeOK, Gone, Standing, OwnerInv, VolumeInv
<1> QED
  BY <1>1, <1>2, <1>3, <1>4, <1>5, OneCluster DEF TypeOK

LEMMA CleanVolumeCbStep ==
  ASSUME IInv, NEW c \in Clusters, CleanVolumeCb(c)
  PROVE  IInv'
<1> USE DEF IInv, CleanVolumeCb, Go, source, content, cluster, worker, owner, DeleteVolumes
<1>1. TypeOK'
  BY DEF TypeOK, Cleaning
<1>2. \A d \in Clusters : d # c => Same(d)
  BY DEF TypeOK, Same
<1>3. PathInv(c)'
  BY DEF TypeOK, PathInv, AfterWait, AfterSnapshots, AfterPath
<1>4. VolumeInv(c)'
  BY DEF TypeOK, VolumeInv, AfterVolumes, Bound, Accountable, Cleaning
<1>5. (Gone(c) => Gone(c)') /\ (parent = "live" => Standing(c)')
  BY DEF TypeOK, Gone, Standing, OwnerInv, VolumeInv
<1> QED
  BY <1>1, <1>2, <1>3, <1>4, <1>5, OneCluster DEF TypeOK

LEMMA CleanVolumeFailsStep ==
  ASSUME IInv, NEW c \in Clusters, CleanVolumeFails(c)
  PROVE  IInv'
<1> USE DEF IInv, CleanVolumeFails, Go, source, content, cluster, worker, owner, EndPass, DeleteVolumes, Fault
<1>1. TypeOK'
  BY TeardownConstants DEF TypeOK, Cleaning, TeardownConstants
<1>2. \A d \in Clusters : d # c => Same(d)
  BY DEF TypeOK, Same
<1>3. PathInv(c)'
  BY DEF TypeOK, PathInv, AfterWait, AfterSnapshots, AfterPath
<1>4. VolumeInv(c)'
  BY DEF TypeOK, VolumeInv, AfterVolumes, Bound, Accountable, Cleaning
<1>5. (Gone(c) => Gone(c)') /\ (parent = "live" => Standing(c)')
  BY DEF TypeOK, Gone, Standing, OwnerInv, VolumeInv
<1> QED
  BY <1>1, <1>2, <1>3, <1>4, <1>5, OneCluster DEF TypeOK

LEMMA AnnotateStep ==
  ASSUME IInv, NEW c \in Clusters, Annotate(c)
  PROVE  IInv'
<1> USE DEF IInv, Annotate, Go, source, content, cluster, worker, owner
<1>1. TypeOK'
  BY DEF TypeOK, Cleaning
<1>2. \A d \in Clusters : d # c => Same(d)
  BY DEF TypeOK, Same
<1>3. PathInv(c)'
  BY DEF TypeOK, PathInv, AfterWait, AfterSnapshots, AfterPath
<1>4. VolumeInv(c)'
  BY DEF TypeOK, VolumeInv, AfterVolumes, Bound, Accountable, Cleaning
<1>5. (Gone(c) => Gone(c)') /\ (parent = "live" => Standing(c)')
  BY DEF TypeOK, Gone, Standing, OwnerInv, VolumeInv
<1> QED
  BY <1>1, <1>2, <1>3, <1>4, <1>5, OneCluster DEF TypeOK

LEMMA CheckPeersStep ==
  ASSUME IInv, NEW c \in Clusters, CheckPeers(c)
  PROVE  IInv'
<1> USE DEF IInv, CheckPeers, Go, source, content, cluster, worker, owner
<1>1. TypeOK'
  BY DEF TypeOK, Cleaning
<1>2. \A d \in Clusters : d # c => Same(d)
  BY DEF TypeOK, Same
<1>3. PathInv(c)'
  BY DEF TypeOK, PathInv, AfterWait, AfterSnapshots, AfterPath
<1>4. VolumeInv(c)'
  BY DEF TypeOK, VolumeInv, AfterVolumes, Bound, Accountable, Cleaning, AllVCRsDeleted
<1>5. (Gone(c) => Gone(c)') /\ (parent = "live" => Standing(c)')
  BY DEF TypeOK, Gone, Standing, OwnerInv, VolumeInv
<1> QED
  BY <1>1, <1>2, <1>3, <1>4, <1>5, OneCluster DEF TypeOK

LEMMA RemoveFinalizerStep ==
  ASSUME IInv, NEW c \in Clusters, RemoveFinalizer(c)
  PROVE  IInv'
<1> USE DEF IInv, RemoveFinalizer, Go, source, content, cluster, worker, owner, EndPass
<1>1. TypeOK'
  BY DEF TypeOK, Cleaning
<1>2. \A d \in Clusters : d # c => Same(d)
  BY DEF TypeOK, Same
<1>3. PathInv(c)'
  BY DEF TypeOK, PathInv, AfterWait, AfterSnapshots, AfterPath
<1>4. VolumeInv(c)'
  BY DEF TypeOK, VolumeInv, AfterVolumes, Bound, Accountable, Cleaning
<1>5. (Gone(c) => Gone(c)') /\ (parent = "live" => Standing(c)')
  BY DEF TypeOK, Gone, Standing, OwnerInv, VolumeInv
<1> QED
  BY <1>1, <1>2, <1>3, <1>4, <1>5, OneCluster DEF TypeOK

-----------------------------------------------------------------------------
(* PVCs.  A volume of a secondary belongs to a PVC that was bound, so a new PVC
   has none there.                                                          *)

LEMMA CreatePVCStep ==
  ASSUME IInv, NEW p \in PVCs, CreatePVC(p)
  PROVE  IInv'
<1> USE DEF IInv, CreatePVC, content, worker, cluster, owner
<1>1. TypeOK'
  BY TeardownConstants DEF TypeOK, TeardownConstants
<1>2. ASSUME NEW c \in Clusters PROVE PathInv(c)'
  BY DEF PathInv
<1>3. ASSUME NEW c \in Clusters PROVE VolumeInv(c)'
  BY DEF TypeOK, VolumeInv, Bound, Accountable
<1>4. OwnerInv'
  BY DEF OwnerInv, Gone, Standing, TypeOK, Sources
<1> QED
  BY <1>1, <1>2, <1>3, <1>4

LEMMA BindPVCStep ==
  ASSUME IInv, NEW p \in PVCs, BindPVC(p)
  PROVE  IInv'
<1> USE DEF IInv, BindPVC, content, worker, cluster, owner
<1>1. TypeOK'
  BY TeardownConstants DEF TypeOK, TeardownConstants
<1>2. ASSUME NEW c \in Clusters PROVE PathInv(c)'
  BY DEF PathInv
<1>3. ASSUME NEW c \in Clusters PROVE VolumeInv(c)'
  BY DEF TypeOK, VolumeInv, Bound, Accountable
<1>4. OwnerInv'
  BY DEF OwnerInv, Gone, Standing, TypeOK, Sources
<1> QED
  BY <1>1, <1>2, <1>3, <1>4

LEMMA DeletePVCStep ==
  ASSUME IInv, NEW p \in PVCs, DeletePVC(p)
  PROVE  IInv'
<1> USE DEF IInv, DeletePVC, content, worker, cluster, owner
<1>1. TypeOK'
  BY TeardownConstants DEF TypeOK, TeardownConstants
<1>2. ASSUME NEW c \in Clusters PROVE PathInv(c)'
  BY DEF PathInv
<1>3. ASSUME NEW c \in Clusters PROVE VolumeInv(c)'
  BY DEF TypeOK, VolumeInv, Bound, Accountable
<1>4. OwnerInv'
  BY DEF OwnerInv, Gone, Standing, TypeOK, Sources
<1> QED
  BY <1>1, <1>2, <1>3, <1>4

LEMMA SyncVRCPVCsStep ==
  ASSUME IInv, SyncVRCPVCs
  PROVE  IInv'
<1> USE DEF IInv, SyncVRCPVCs, content, worker, cluster, owner
<1>1. TypeOK'
  BY DEF TypeOK, Sources
<1>2. ASSUME NEW c \in Clusters PROVE PathInv(c)'
  BY DEF PathInv
<1>3. ASSUME NEW c \in Clusters PROVE VolumeInv(c)'
  BY DEF TypeOK, VolumeInv, Bound, Accountable, Sources
<1>4. OwnerInv'
  BY DEF OwnerInv, Gone, Standing, TypeOK, Sources
<1> QED
  BY <1>1, <1>2, <1>3, <1>4

LEMMA CrashStep ==
  ASSUME IInv, Crash
  PROVE  IInv'
<1> USE DEF IInv, Crash, source, content, cluster
<1>1. TypeOK'
  BY TeardownConstants DEF TypeOK, TeardownConstants, Fault, Cleaning, Finale
<1>2. ASSUME NEW c \in Clusters PROVE PathInv(c)'
  BY DEF PathInv, AfterWait, AfterSnapshots, AfterPath
<1>3. ASSUME NEW c \in Clusters PROVE VolumeInv(c)'
  BY DEF TypeOK, VolumeInv, Bound, Accountable, AfterVolumes
<1>4. OwnerInv'
  BY DEF OwnerInv, Gone, Standing, Finale
<1> QED
  BY <1>1, <1>2, <1>3, <1>4

-----------------------------------------------------------------------------
(* The worker of the parent.  It changes nothing on a cluster: when it comes to the
   path that path has gone.                                                 *)

\* No cluster of an absent VRC has a path.
LEMMA GoneHasNoPath ==
  ASSUME IInv, NEW c \in Clusters, Gone(c)
  PROVE  path[c] = "none"
  BY DEF IInv, Gone, VolumeInv, PathInv

LEMMA ParentStep ==
  ASSUME IInv, UNCHANGED <<source, content, cluster, worker>>,
         UNCHANGED known, TypeOK', OwnerInv'
  PROVE  IInv'
<1>1. ASSUME NEW c \in Clusters PROVE PathInv(c)' /\ VolumeInv(c)'
  BY DEF IInv, PathInv, VolumeInv, Bound, Accountable, source, content, cluster, worker
<1> QED
  BY <1>1 DEF IInv

LEMMA DeleteParentStep ==
  ASSUME IInv, DeleteParent
  PROVE  IInv'
<1> USE DEF IInv, DeleteParent, source, content, cluster, worker
<1>1. TypeOK'
  BY DEF TypeOK
<1>2. OwnerInv'
  BY DEF OwnerInv, Finale
<1>3. ASSUME NEW c \in Clusters PROVE PathInv(c)'
  BY DEF PathInv
<1>4. ASSUME NEW c \in Clusters PROVE VolumeInv(c)'
  <2>1. ~cleaned[c] /\ pc[c] \notin Cleaning
    BY DEF OwnerInv, Standing, VolumeInv, TypeOK
  <2>2. Accountable' \subseteq listed \/ Accountable' = Accountable
    BY DEF Accountable
  <2> QED
    BY <2>1, <2>2 DEF VolumeInv, AfterVolumes, Cleaning, Bound
<1> QED
  BY <1>1, <1>2, <1>3, <1>4

LEMMA HandleDeletionStep ==
  ASSUME IInv, HandleDeletion
  PROVE  IInv'
<1>1. TypeOK'
  BY DEF IInv, TypeOK, HandleDeletion, Finale, source, content, cluster, worker
<1>2. OwnerInv'
  BY DEF HandleDeletion, AllContentGone, IInv, OwnerInv, Gone, Standing, Finale, source, content
<1> QED
  BY <1>1, <1>2, ParentStep DEF HandleDeletion

LEMMA DeleteLeftPathStep ==
  ASSUME IInv, DeleteLeftPath
  PROVE  IInv'
<1>1. Gone(Primary)
  BY TeardownConstants DEF TeardownConstants, IInv, OwnerInv, DeleteLeftPath, Finale
<1>2. UNCHANGED path
  BY <1>1, GoneHasNoPath, TeardownConstants DEF TeardownConstants, DeleteLeftPath, IInv, TypeOK
<1>3. TypeOK'
  BY <1>2 DEF IInv, TypeOK, DeleteLeftPath, Finale, source, content, worker
<1>4. OwnerInv'
  BY DEF IInv, DeleteLeftPath, OwnerInv, Gone, Standing, Finale, source, content
<1> QED
  BY <1>2, <1>3, <1>4, ParentStep DEF DeleteLeftPath, cluster

LEMMA DeleteProtectionPoliciesStep ==
  ASSUME IInv, DeleteProtectionPolicies
  PROVE  IInv'
<1>1. PICK failed \in SUBSET policies :
        /\ IF failed = {} THEN UNCHANGED faults ELSE Fault
        /\ policies' = {c \in policies : c \in failed \/ InUse(c)}
        /\ missed' = failed
  BY DEF DeleteProtectionPolicies
<1>2. faults' \in 0..MaxFaults
  BY <1>1, TeardownConstants DEF TeardownConstants, IInv, TypeOK, Fault
<1>3. policies' \subseteq Clusters /\ missed' \subseteq Clusters
  BY <1>1 DEF IInv, TypeOK
<1>4. TypeOK'
  BY <1>2, <1>3 DEF IInv, TypeOK, DeleteProtectionPolicies, Finale, source, content, cluster, worker
<1>5. \A c \in Clusters : Gone(c) /\ ~InUse(c)
  BY GoneHasNoPath DEF IInv, OwnerInv, DeleteProtectionPolicies, Finale, InUse
<1>6. policies' \subseteq missed'
  BY <1>1, <1>3, <1>5
<1>7. OwnerInv'
  BY <1>5, <1>6 DEF IInv, OwnerInv, Gone, DeleteProtectionPolicies, source, content
<1> QED
  BY <1>4, <1>7, ParentStep DEF DeleteProtectionPolicies

LEMMA RemoveParentStep ==
  ASSUME IInv, RemoveParent
  PROVE  IInv'
<1>1. TypeOK'
  BY DEF IInv, TypeOK, RemoveParent, source, content, cluster, worker
<1>2. OwnerInv'
  BY DEF IInv, RemoveParent, OwnerInv, Gone, Finale, source, content
<1> QED
  BY <1>1, <1>2, ParentStep DEF RemoveParent

-----------------------------------------------------------------------------

LEMMA InitIInv == Init => IInv
<1> SUFFICES ASSUME Init PROVE IInv
  OBVIOUS
<1> USE DEF Init
<1>1. TypeOK
  BY TeardownConstants DEF TypeOK, TeardownConstants, Cleaning
<1>2. ASSUME NEW c \in Clusters PROVE PathInv(c) /\ VolumeInv(c)
  BY DEF PathInv, VolumeInv, AfterWait, AfterSnapshots, AfterPath, AfterVolumes
<1>3. OwnerInv
  BY DEF OwnerInv, Standing, Finale
<1> QED
  BY <1>1, <1>2, <1>3 DEF IInv

LEMMA NextIInv == IInv /\ [Next]_vars => IInv'
<1> SUFFICES ASSUME IInv, [Next]_vars PROVE IInv'
  OBVIOUS
<1>1. ASSUME NEW c \in Clusters, Work(c) PROVE IInv'
  BY <1>1, ClassifyPVCsStep, SyncVolumesStep, StartStep, GetPPathStep, DisablePathStep,
     WaitAfterPpathDisableStep, DeleteSnapshotsStep, DeletePathStep, AwaitAbsentStep,
     ListPairsStep, CleanVolumeCbStep, AnnotateStep,
     CheckPeersStep, RemoveFinalizerStep DEF Work
<1>2. ASSUME NEW c \in Clusters, Vast(c) PROVE IInv'
  BY <1>2, LandStep, PathGoneStep DEF Vast
<1>3. ASSUME NEW c \in Clusters, Abort(c) PROVE IInv'
  <2>1. faults' \in 0..MaxFaults
    BY <1>3, TeardownConstants DEF IInv, TypeOK, Abort, Fault, TeardownConstants
  <2> QED
    BY <1>3, <2>1, EndStep DEF Abort
<1>4. CASE UNCHANGED vars
  BY <1>4 DEF vars, source, content, cluster, worker, owner, IInv, TypeOK, PathInv, VolumeInv,
           OwnerInv, Gone, Standing, Bound, Accountable
<1> QED
  BY <1>1, <1>2, <1>3, <1>4, DisableVolumeReplicationStep, SelfDestructStep, ReplicateStep, ReplicateVolumeStep,
     CleanVolumeFailsStep, CreatePVCStep, BindPVCStep, DeletePVCStep, SyncVRCPVCsStep,
     CrashStep, DeleteParentStep, HandleDeletionStep, DeleteLeftPathStep,
     DeleteProtectionPoliciesStep, RemoveParentStep DEF Next, Finish

\* IInv is an invariant of all clusters, users and controllers together.
THEOREM Invariance == Spec => []IInv
  BY InitIInv, NextIInv, PTL DEF Spec

\* Every variable has its type, and a worker cleans up only a VRC that is being
\* deleted and has not been cleaned up before.
THEOREM TypeCorrect == Spec => []TypeOK
  BY Invariance, PTL DEF IInv

\* On any number of clusters, with any number of failed attempts and restarts, a VRC
\* with cleanup-done has no path, no snapshot under way and none left behind that no
\* event has reported.
THEOREM SnapshotsRemoved == Spec => []NoSnapshotLeft
<1>1. IInv => NoSnapshotLeft
  BY DEF IInv, PathInv, NoSnapshotLeft
<1> QED
  BY <1>1, Invariance, PTL

\* On any number of clusters and for any number of PVCs, no secondary leaves the volume
\* of an existing PVC behind because the VRC that lists the PVCs has gone before it
\* looked: no file volume, and no block volume listed when the parent was deleted.
THEOREM VolumesRemoved == Spec => []NoVolumeLeft
<1>1. IInv => NoVolumeLeft
  BY DEF IInv, VolumeInv, NoVolumeLeft
<1> QED
  BY <1>1, Invariance, PTL

\* On any number of clusters the policies are deleted when every path has gone, so the
\* parent leaves none behind but those whose own call failed.
THEOREM PoliciesRemoved == Spec => []NoPolicyLeft
<1>1. IInv => NoPolicyLeft
  BY DEF IInv, OwnerInv, NoPolicyLeft
<1> QED
  BY <1>1, Invariance, PTL

-----------------------------------------------------------------------------
(* Teardown keeps to ContentLifecycle.                                      *)

\* Nothing is held behind cleanup-done, nor without a VRC.
LEMMA HeldIsOpen ==
  ASSUME IInv, NEW c \in Held
  PROVE  c \in Clusters /\ Record[c] = "open"
  BY DEF IInv, Held, Record, PathInv, VolumeInv

\* A step that leaves parent, VRC and cleanup-done alone, and after which at most one
\* cluster holds less than before.
LEMMA LifeRemove ==
  ASSUME IInv, NEW c \in Clusters, UNCHANGED parent, UNCHANGED cleaned,
         \A d \in Clusters : (vrc'[d] = "absent") <=> (vrc[d] = "absent"),
         \A d \in Clusters : d \in Held' => d \in Held,
         \A d \in Clusters : d # c /\ d \in Held => d \in Held'
  PROVE  [Life!Next]_(Life!lifeVars)
<1>1. UNCHANGED Record
  BY DEF Record
<1>2. Held \subseteq Clusters /\ Held' \subseteq Clusters
  BY DEF Held
<1>3. CASE c \in Held /\ c \notin Held'
  <2>1. Held' = Held \ {c}
    BY <1>2, <1>3
  <2>2. Life!Remove(c)
    BY <1>1, <1>3, <2>1, HeldIsOpen DEF Life!Remove
  <2> QED
    BY <2>2 DEF Life!Next
<1>4. CASE ~(c \in Held /\ c \notin Held')
  <2>1. UNCHANGED Held
    BY <1>2, <1>4
  <2> QED
    BY <1>1, <2>1 DEF Life!lifeVars
<1> QED
  BY <1>3, <1>4

\* A step that touches none of the storage objects, VRCs and marks of the parent.
LEMMA LifeStutter ==
  ASSUME UNCHANGED <<parent, vrc, cleaned, path, flight, snaps, warned>>
  PROVE  [Life!Next]_(Life!lifeVars)
<1>1. UNCHANGED Record /\ UNCHANGED Held
  BY DEF Record, Held
<1> QED
  BY <1>1 DEF Life!lifeVars

\* Every step is a step of the life cycle or leaves it alone.
LEMMA LifeStep ==
  ASSUME IInv, [Next]_vars
  PROVE  [Life!Next]_(Life!lifeVars)
<1> USE DEF source, content, cluster, worker, owner
<1>1. ASSUME NEW p \in PVCs, CreatePVC(p) \/ BindPVC(p) \/ DeletePVC(p)
      PROVE  [Life!Next]_(Life!lifeVars)
  BY <1>1, LifeStutter DEF CreatePVC, BindPVC, DeletePVC
<1>2. CASE SyncVRCPVCs
  BY <1>2, LifeStutter DEF SyncVRCPVCs
<1>3. ASSUME NEW c \in Clusters,
             ReplicateVolume(c) \/ ClassifyPVCs(c) \/ SyncVolumes(c) \/ Start(c) \/ GetPPath(c)
               \/ WaitAfterPpathDisable(c) \/ AwaitAbsent(c) \/ ListPairs(c) \/ CleanVolumeCb(c)
               \/ CleanVolumeFails(c) \/ CheckPeers(c) \/ Abort(c)
      PROVE  [Life!Next]_(Life!lifeVars)
  BY <1>3, LifeStutter DEF ReplicateVolume, ClassifyPVCs, SyncVolumes, Start, GetPPath, WaitAfterPpathDisable,
       AwaitAbsent, ListPairs, CleanVolumeCb, CleanVolumeFails, 
       CheckPeers, Abort
<1>4. ASSUME NEW c \in Clusters, SelfDestruct(c) PROVE [Life!Next]_(Life!lifeVars)
  <2>1. \A d \in Clusters : (vrc'[d] = "absent") <=> (vrc[d] = "absent")
    BY <1>4 DEF SelfDestruct, IInv, TypeOK
  <2> QED
    BY <1>4, <2>1, LifeRemove DEF SelfDestruct, Held
<1>5. ASSUME NEW c \in Clusters,
             DisableVolumeReplication(c) \/ DisablePath(c) \/ DeletePath(c) \/ Replicate(c)
               \/ Land(c) \/ PathGone(c) \/ DeleteSnapshots(c)
      PROVE  [Life!Next]_(Life!lifeVars)
  <2>1. UNCHANGED <<parent, cleaned, vrc>>
    BY <1>5 DEF DisableVolumeReplication, DisablePath, DeletePath, Replicate, Land, PathGone,
         DeleteSnapshots
  <2>2. \A d \in Clusters : d # c /\ d \in Held => d \in Held'
    BY <1>5 DEF DisableVolumeReplication, DisablePath, DeletePath, Replicate, Land, PathGone,
         DeleteSnapshots, Held, IInv, TypeOK
  <2>3. \A d \in Clusters : d # c /\ d \in Held' => d \in Held
    BY <1>5 DEF DisableVolumeReplication, DisablePath, DeletePath, Replicate, Land, PathGone,
         DeleteSnapshots, Held, IInv, TypeOK
  <2>4. c \in Held' => c \in Held
    <3>1. CASE DisableVolumeReplication(c)
      BY <3>1 DEF DisableVolumeReplication, Held, IInv, TypeOK
    <3>2. CASE DisablePath(c)
      <4>1. path[c] # "none"
        BY <3>2 DEF DisablePath, IInv, PathInv
      <4> QED
        BY <3>2, <4>1 DEF DisablePath, Held, IInv, TypeOK
    <3>3. CASE DeletePath(c) \/ Replicate(c) \/ Land(c) \/ PathGone(c)
      BY <3>3 DEF DeletePath, Replicate, Land, PathGone, Held, IInv, TypeOK
    <3>4. CASE DeleteSnapshots(c)
      BY <3>4 DEF DeleteSnapshots, Held, IInv, TypeOK
    <3> QED
      BY <1>5, <3>1, <3>2, <3>3, <3>4
  <2> QED
    BY <2>1, <2>2, <2>3, <2>4, LifeRemove
<1>6. ASSUME NEW c \in Clusters, Annotate(c) PROVE [Life!Next]_(Life!lifeVars)
  <2>1. UNCHANGED <<parent, Held>>
    BY <1>6 DEF Annotate, Held
  <2>2. vrc[c] = "terminating" /\ ~cleaned[c]
    BY <1>6 DEF Annotate, IInv, TypeOK, Cleaning
  <2>3. c \notin Held
    BY <1>6 DEF Annotate, Held, IInv, PathInv, AfterWait, AfterSnapshots, AfterPath
  <2>4. Record' = [Record EXCEPT ![c] = "sealed"]
    BY <1>6, <2>2 DEF Annotate, Record, IInv, TypeOK
  <2>5. Life!Seal(c)
    BY <2>1, <2>2, <2>3, <2>4 DEF Life!Seal, Record
  <2> QED
    BY <2>5 DEF Life!Next
<1>7. ASSUME NEW c \in Clusters, RemoveFinalizer(c) PROVE [Life!Next]_(Life!lifeVars)
  <2>1. UNCHANGED <<parent, Held>>
    BY <1>7 DEF RemoveFinalizer, Held
  <2>2. cleaned[c]
    BY <1>7 DEF RemoveFinalizer, IInv, VolumeInv
  <2>3. Record' = [Record EXCEPT ![c] = "absent"]
    BY <1>7 DEF RemoveFinalizer, Record, IInv, TypeOK
  <2>4. CASE vrc[c] = "absent"
    <3>1. Record' = Record
      BY <2>3, <2>4 DEF Record
    <3> QED
      BY <2>1, <3>1 DEF Life!lifeVars
  <2>5. CASE vrc[c] # "absent"
    <3>1. Life!Close(c)
      BY <2>1, <2>2, <2>3, <2>5 DEF Life!Close, Record
    <3> QED
      BY <3>1 DEF Life!Next
  <2> QED
    BY <2>4, <2>5
<1>8. CASE DeleteParent
  <2>1. UNCHANGED <<Record, Held>>
    BY <1>8 DEF DeleteParent, Record, Held
  <2>2. Life!Delete
    BY <1>8, <2>1 DEF DeleteParent, Life!Delete, Finale
  <2> QED
    BY <2>2 DEF Life!Next
<1>9. CASE HandleDeletion \/ DeleteProtectionPolicies \/ Crash
  <2>1. UNCHANGED <<Record, Held>>
    BY <1>9 DEF HandleDeletion, DeleteProtectionPolicies, Crash, Record, Held
  <2>2. UNCHANGED (IF parent \in Finale THEN "terminating" ELSE parent)
    BY <1>9 DEF HandleDeletion, DeleteProtectionPolicies, Crash, Finale
  <2> QED
    BY <2>1, <2>2 DEF Life!lifeVars
<1>10. CASE DeleteLeftPath
  <2>1. Gone(Primary)
    BY <1>10, TeardownConstants DEF TeardownConstants, IInv, OwnerInv, DeleteLeftPath, Finale
  <2>2. UNCHANGED path
    BY <1>10, <2>1, GoneHasNoPath, TeardownConstants
    DEF TeardownConstants, DeleteLeftPath, IInv, TypeOK
  <2>3. UNCHANGED <<Record, Held>>
    BY <1>10, <2>2 DEF DeleteLeftPath, Record, Held
  <2>4. UNCHANGED (IF parent \in Finale THEN "terminating" ELSE parent)
    BY <1>10 DEF DeleteLeftPath, Finale
  <2> QED
    BY <2>3, <2>4 DEF Life!lifeVars
<1>11. CASE RemoveParent
  <2>1. UNCHANGED <<Record, Held>>
    BY <1>11 DEF RemoveParent, Record, Held
  <2>2. \A c \in Clusters : cleaned[c]
    BY <1>11 DEF RemoveParent, IInv, OwnerInv, Gone, VolumeInv, Finale
  <2>3. Held = {}
    BY <2>2 DEF Held, IInv, PathInv
  <2>4. Life!End
    BY <1>11, <2>1, <2>3 DEF RemoveParent, Life!End, Finale
  <2> QED
    BY <2>4 DEF Life!Next
<1>12. CASE UNCHANGED vars
  BY <1>12, LifeStutter DEF vars
<1> QED
  BY <1>1, <1>2, <1>3, <1>4, <1>5, <1>6, <1>7, <1>8, <1>9, <1>10, <1>11, <1>12
  DEF Next, Work, Vast, Finish

\* On any number of clusters, with any number of PVCs, failed calls and restarts, the
\* cleanup keeps to the life cycle that module Constellation is shown to implement with
\* the cleanup as one step.
THEOREM LifecycleKept == Spec => CleanupKeepsLifecycle
  BY LifeStep, Invariance, PTL DEF Spec, CleanupKeepsLifecycle
=============================================================================
