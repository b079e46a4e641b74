--------------------------- MODULE PvcRemapProofs ---------------------------
(***************************************************************************)
(* What holds of PvcRemap for any StorageClasses, workloads, failovers and  *)
(* faults: a request is never used up without the remap it was for, but in  *)
(* the case the history variable unheard stands for.                        *)
(***************************************************************************)
EXTENDS PvcRemap, TLAPS

\* The object of StorageClass s lets a remap for s do its work.
Remappable(s) == IsConfirmed(s) /\ (kind = "VSCR" => s \in listed)

\* The workloads are on the claim of s, but for those the last remap passed over
\* and those it still has to patch.
On(s, left) == \A w \in Workloads \ Standalone : missed[w] \/ claim[w] = s \/ w \in left

\* How far the pass for the primary that was read last has come, if there was
\* something to do and no request waits that will do it over.
PassInv ==
  live /\ Remappable(target) /\ ~queued =>
    /\ pc = "idle" => On(target, {})
    /\ pc \in {"pods", "patch"} => table = Siblings(target)
    /\ pc = "patch" => On(target, seen)

\* The pass is for the primary, unless a failback went unheard.
TargetInv == live /\ Remappable(primary) /\ ~queued /\ ~unheard => target = primary

IInv == TypeOK /\ PassInv /\ TargetInv

\* The table has every claim but the one of the primary.
LEMMA SiblingsAreOthers ==
  ASSUME NEW s \in SCs
  PROVE  Siblings(s) = SCs \ {s}
  BY PvcRemapConstants DEF Siblings

LEMMA TypeStep ==
  ASSUME TypeOK, [Next]_vars
  PROVE  TypeOK'
<1>1. Fault => faults' \in 0..MaxFaults
  BY PvcRemapConstants DEF Fault, TypeOK
<1>2. (failovers < MaxFailovers => failovers + 1 \in 0..MaxFailovers) /\ Home \in SCs
  BY PvcRemapConstants DEF TypeOK
<1> USE DEF TypeOK, parent, objects, running, worker
<1>3. CASE UNCHANGED vars
  BY <1>3 DEF vars
<1>4. Enqueue => queued' \in BOOLEAN /\ unheard' \in BOOLEAN
  BY DEF Enqueue
<1>5. ASSUME NEW s \in SCs, Failover(s) PROVE TypeOK'
  BY <1>2, <1>5 DEF Failover
<1>6. CASE DeleteParent
  BY <1>6 DEF DeleteParent
<1>7. CASE EnsureState
  BY <1>4, <1>7 DEF EnsureState
<1>8. CASE SyncStates
  BY <1>4, <1>8 DEF SyncStates
<1>9. CASE SyncFails
  BY <1>1, <1>9 DEF SyncFails
<1>10. ASSUME NEW s \in SCs, Confirm(s) PROVE TypeOK'
  BY <1>4, <1>10 DEF Confirm
<1>11. ASSUME NEW s \in SCs, ListSibling(s) PROVE TypeOK'
  BY <1>4, <1>11 DEF ListSibling
<1>12. ASSUME NEW w \in Workloads, SyncOwner(w) \/ StartPod(w) \/ StopPods(w) PROVE TypeOK'
  BY <1>12 DEF SyncOwner, StartPod, StopPods
<1>13. ASSUME NEW w \in Workloads, Evict(w) PROVE TypeOK'
  BY <1>1, <1>13 DEF Evict
<1>14. CASE ReadParent
  BY <1>14 DEF ReadParent
<1>15. CASE BuildTable
  BY <1>2, <1>15 DEF BuildTable, Siblings
<1>16. CASE ListPods
  BY <1>16 DEF ListPods
<1>17. ASSUME NEW w \in Workloads, PatchOwner(w) PROVE TypeOK'
  BY <1>17 DEF PatchOwner, Patched
<1>18. ASSUME NEW w \in Workloads, PatchFails(w) PROVE TypeOK'
  BY <1>1, <1>18 DEF PatchFails, Patched
<1>19. CASE Abort
  BY <1>1, <1>19 DEF Abort
<1>20. CASE Crash
  BY <1>1, <1>20 DEF Crash
<1> QED
  BY <1>3, <1>5, <1>6, <1>7, <1>8, <1>9, <1>10, <1>11, <1>12, <1>13, <1>14, <1>15, <1>16, <1>17,
     <1>18, <1>19, <1>20
  DEF Next, Work, Environment

-----------------------------------------------------------------------------

\* confirmedPrimaryTransitionPredicate lets every event through after which there is
\* something to do that there was not before.
LEMMA NothingToDoIsMissed ==
  ASSUME TypeOK, TypeOK', Enqueue, kind' = kind, NEW s \in SCs, Remappable(s)', ~queued'
  PROVE  Remappable(s) /\ ~queued /\ unheard' = unheard
<1>1. ~Triggers /\ ~queued
  BY DEF Enqueue, TypeOK
<1>2. unheard' = unheard
  BY <1>1 DEF Enqueue, TypeOK
<1> QED
  BY <1>1, <1>2 DEF Triggers, Remappable, IsConfirmed, TypeOK

\* A step of the replication controllers or of csi-addons.
LEMMA ObjectStep ==
  ASSUME IInv, TypeOK', Enqueue, UNCHANGED <<kind, live, primary, claim, worker, missed>>
  PROVE  PassInv' /\ TargetInv'
<1>1. target \in SCs /\ primary \in SCs /\ UNCHANGED <<pc, target, table, seen>>
  BY DEF IInv, TypeOK, worker
<1>2. live /\ Remappable(target)' /\ ~queued' => PassInv'
  <2> HAVE live /\ Remappable(target)' /\ ~queued'
  <2>1. Remappable(target) /\ ~queued
    BY <1>1, NothingToDoIsMissed DEF IInv, Remappable, IsConfirmed
  <2> QED
    BY <1>1, <2>1 DEF IInv, PassInv, On, Siblings
<1>3. TargetInv'
  BY <1>1, NothingToDoIsMissed DEF IInv, TargetInv, Remappable, IsConfirmed
<1> QED
  BY <1>2, <1>3 DEF PassInv

\* A failover is announced, or its request is waiting, or the worker was there last,
\* or it goes unheard.
LEMMA FailoverStep ==
  ASSUME IInv, NEW s \in SCs, Failover(s)
  PROVE  PassInv' /\ TargetInv'
<1>1. UNCHANGED <<kind, live, objects, claim, queued, worker, missed>> /\ primary' = s
      /\ unheard' = (IsConfirmed(s) /\ ~queued /\ target # s)
  BY DEF Failover, running
<1>2. PassInv'
  BY <1>1 DEF IInv, PassInv, Remappable, IsConfirmed, On, Siblings, objects, worker
<1>3. TargetInv'
  BY <1>1 DEF TargetInv, Remappable, IsConfirmed, objects, worker
<1> QED
  BY <1>2, <1>3

LEMMA ReadParentStep ==
  ASSUME IInv, ReadParent
  PROVE  PassInv' /\ TargetInv'
<1>1. UNCHANGED <<kind, live, primary, objects>> /\ target' = primary
      /\ (live /\ Remappable(primary) => pc' = "table")
  BY DEF ReadParent, parent, Remappable
<1>2. Remappable(target)' => Remappable(primary)
  BY <1>1 DEF Remappable, IsConfirmed, objects
<1>3. PassInv'
  BY <1>1, <1>2 DEF PassInv
<1> QED
  BY <1>1, <1>3 DEF TargetInv

\* The steps of the worker within a pass: the objects stay as they are.
Within == UNCHANGED <<kind, live, primary, unheard, objects, queued, target>>

LEMMA WithinStep ==
  ASSUME IInv, Within
  PROVE  TargetInv' /\ (Remappable(target)' = Remappable(target))
  BY DEF IInv, Within, TargetInv, Remappable, IsConfirmed, objects

LEMMA BuildTableStep ==
  ASSUME IInv, BuildTable
  PROVE  PassInv' /\ TargetInv'
<1>1. Within /\ target \in SCs /\ UNCHANGED <<claim, missed>>
  BY DEF BuildTable, Within, IInv, TypeOK, parent, running
<1>2. TargetInv' /\ (Remappable(target)' = Remappable(target))
  BY <1>1, WithinStep
<1>3. table' = Siblings(target) /\ pc' = IF table' = {} THEN "idle" ELSE "pods"
  BY DEF BuildTable
<1>4. Siblings(target) = {} => \A w \in Workloads : claim[w] = target
  BY <1>1, SiblingsAreOthers DEF IInv, TypeOK
<1>5. PassInv'
  <2> SUFFICES ASSUME live, Remappable(target) PROVE PassInv'
    BY <1>1, <1>2 DEF PassInv, Within
  <2>1. CASE table' = {}
    BY <1>1, <1>3, <1>4, <2>1 DEF PassInv, On, Within
  <2>2. CASE table' # {}
    BY <1>1, <1>3, <2>2 DEF PassInv, On, Within, Siblings
  <2> QED
    BY <2>1, <2>2
<1> QED
  BY <1>2, <1>5

\* A workload none of whose pods uses a claim of the table is passed over, or there
\* already.
LEMMA ListPodsStep ==
  ASSUME IInv, ListPods
  PROVE  PassInv' /\ TargetInv'
<1>1. Within /\ target \in SCs /\ UNCHANGED <<claim, table>>
  BY DEF ListPods, Within, IInv, TypeOK, parent, running
<1>2. TargetInv' /\ (Remappable(target)' = Remappable(target))
  BY <1>1, WithinStep
<1>3. /\ seen' = {} => pc' = "idle"
      /\ seen' # {} => pc' = "patch"
      /\ \A w \in Workloads : missed'[w] = (w \notin seen' /\ claim[w] \in table)
  BY DEF ListPods
<1>4. PassInv'
  <2> SUFFICES ASSUME live, Remappable(target), ~queued PROVE PassInv'
    BY <1>1, <1>2 DEF PassInv, Within
  <2>1. table = SCs \ {target}
    BY <1>1, SiblingsAreOthers DEF IInv, PassInv, ListPods
  <2>2. \A w \in Workloads : missed'[w] \/ claim[w] = target \/ w \in seen'
    BY <1>3, <2>1 DEF IInv, TypeOK
  <2> QED
    BY <1>1, <1>3, <2>1, <2>2, SiblingsAreOthers DEF PassInv, On, Within, Siblings
<1> QED
  BY <1>2, <1>4

\* A workload that was seen is patched, or there already, or passed over.
LEMMA PatchStep ==
  ASSUME IInv, NEW w \in Workloads, PatchOwner(w) \/ PatchFails(w)
  PROVE  PassInv' /\ TargetInv'
<1>1. Within /\ target \in SCs /\ table' = table /\ seen' = seen \ {w} /\ pc = "patch"
      /\ pc' = IF seen' = {} THEN "idle" ELSE "patch"
  BY DEF PatchOwner, PatchFails, Patched, Within, IInv, TypeOK, parent
<1>2. TargetInv' /\ (Remappable(target)' = Remappable(target))
  BY <1>1, WithinStep
<1>3. PassInv'
  <2> SUFFICES ASSUME live, Remappable(target), ~queued PROVE PassInv'
    BY <1>1, <1>2 DEF PassInv, Within
  <2>1. table = SCs \ {target} /\ table = Siblings(target) /\ On(target, seen)
    BY <1>1, SiblingsAreOthers DEF IInv, PassInv
  <2>2. \A v \in Workloads : v # w => claim'[v] = claim[v] /\ missed'[v] = missed[v]
    BY DEF PatchOwner, PatchFails, IInv, TypeOK, running
  <2>3. w \notin Standalone => missed'[w] \/ claim'[w] = target
    BY <2>1 DEF PatchOwner, PatchFails, IInv, TypeOK
  <2>4. \A v \in Workloads \ Standalone : missed'[v] \/ claim'[v] = target \/ v \in seen'
    BY <1>1, <2>1, <2>2, <2>3 DEF On
  <2> QED
    BY <1>1, <2>1, <2>4 DEF PassInv, On, Within, Siblings
<1> QED
  BY <1>2, <1>3

LEMMA StepInv ==
  ASSUME IInv, [Next]_vars
  PROVE  IInv'
<1>1. TypeOK'
  BY TypeStep DEF IInv
<1> USE DEF parent, objects, running, worker
<1>2. CASE UNCHANGED <<kind, live, primary, unheard, objects, claim, queued, worker, missed>>
  BY <1>1, <1>2 DEF IInv, PassInv, TargetInv, Remappable, IsConfirmed, On, Siblings
<1>3. CASE DeleteParent
  BY <1>1, <1>3 DEF IInv, DeleteParent, PassInv, TargetInv
<1>4. CASE EnsureState \/ SyncStates \/ (\E s \in SCs : Confirm(s) \/ ListSibling(s))
  <2>1. Enqueue /\ UNCHANGED <<kind, live, primary, claim, worker, missed>>
    BY <1>4 DEF EnsureState, SyncStates, Confirm, ListSibling
  <2> QED
    BY <1>1, <2>1, ObjectStep DEF IInv
<1>5. CASE SyncFails \/ (\E w \in Workloads : SyncOwner(w) \/ StartPod(w) \/ StopPods(w) \/ Evict(w))
  BY <1>1, <1>5
  DEF SyncFails, SyncOwner, StartPod, StopPods, Evict, IInv, PassInv, TargetInv, Remappable, IsConfirmed,
      On, Siblings
<1>6. CASE \E s \in SCs : Failover(s)
  BY <1>1, <1>6, FailoverStep DEF IInv
<1>7. CASE ReadParent \/ BuildTable \/ ListPods
  BY <1>1, <1>7, ReadParentStep, BuildTableStep, ListPodsStep DEF IInv
<1>8. CASE \E w \in Workloads : PatchOwner(w) \/ PatchFails(w)
  BY <1>1, <1>8, PatchStep DEF IInv
<1>9. CASE Abort
  BY <1>1, <1>9 DEF IInv, Abort, PassInv, TargetInv
<1>10. CASE Crash
  <2>1. target \in SCs /\ primary \in SCs
    BY DEF IInv, TypeOK
  <2>2. \A s \in SCs : Remappable(s)' => queued'
    BY <1>10 DEF Crash, Remappable, IsConfirmed
  <2>3. target' = target /\ primary' = primary
    BY <1>10 DEF Crash
  <2> QED
    BY <1>1, <2>1, <2>2, <2>3 DEF IInv, PassInv, TargetInv, Remappable, IsConfirmed
<1> QED
  BY <1>2, <1>3, <1>4, <1>5, <1>6, <1>7, <1>8, <1>9, <1>10 DEF Next, Work, Environment, vars

-----------------------------------------------------------------------------
(* The theorems.                                                            *)

\* The inductive invariant.
THEOREM Inductive == Spec => []IInv
<1>1. Init => IInv
  <2>1. ASSUME Init PROVE TypeOK
    <3>1. 0 \in 0..MaxFaults /\ 0 \in 0..MaxFailovers
      BY PvcRemapConstants
    <3> QED
      BY <2>1, <3>1, PvcRemapConstants DEF Init, TypeOK
  <2> QED
    BY <2>1 DEF Init, IInv, PassInv, TargetInv
<1>2. IInv /\ [Next]_vars => IInv'
  BY StepInv
<1> QED
  BY <1>1, <1>2, PTL DEF Spec

\* The variables keep their types; in particular the table has claims of siblings.
THEOREM TypeCorrect == Spec => []TypeOK
<1>1. IInv => TypeOK
  BY DEF IInv
<1> QED
  BY <1>1, Inductive, PTL

\* However failovers, confirmations, lists, pods, failed calls and restarts interleave
\* with the steps of PVCRemapReconciler, a settled state has no workload on a sibling
\* of the primary's PVC, but for those its last remap passed over, unless a failback
\* went unheard.
THEOREM RemapIsComplete == Spec => []SettledIsRemapped
<1>1. IInv => SettledIsRemapped
  BY DEF IInv, PassInv, TargetInv, SettledIsRemapped, Settled, Remappable, On
<1> QED
  BY <1>1, Inductive, PTL
=============================================================================
