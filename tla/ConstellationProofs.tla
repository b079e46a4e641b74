------------------------ MODULE ConstellationProofs ------------------------
(***************************************************************************)
(* What holds of Constellation for every number of StorageClasses, every    *)
(* choice of VGRs deleted by hand and every number of faults: resources     *)
(* never outlive their VRC, cleanup-done is the truth, and nothing is left  *)
(* once the VSCR is gone.                                                   *)
(***************************************************************************)
EXTENDS Constellation, TLAPS

\* What the control point of a content worker says about its VRC.  A VRC
\* disappears only under its own worker, which has then cleaned up.
ContentInv ==
  \A s \in SCs :
    /\ res[s] => vrc[s] # "absent"
    /\ cleaned[s] => ~res[s] /\ vrc[s] = "terminating"
    /\ vrc[s] = "absent" => cpc[s] = "idle"
    /\ cpc[s] = "provision" => ~cleaned[s]
    /\ cpc[s] \in {"clean", "annotate", "peers", "finalizer"} => vrc[s] = "terminating"
    /\ cpc[s] = "annotate" => ~res[s]
    /\ cpc[s] \in {"peers", "finalizer"} => cleaned[s]

Deleting == {"delete", "count", "list", "backend", "finalizer"}

\* Nothing has resources and no worker is about to provision any.
Quiet == \A s \in SCs : ~res[s] /\ cpc[s] # "provision"

\* How far handleDeletion has come.  The VGRs it has deleted never come back:
\* only this worker creates VGRs.  So a content worker that reads its VRC after
\* that does not provision, and once no VRC is listed everything is quiet.
DeletionInv ==
  /\ pc # "idle" => fin
  /\ pc \in Deleting => vscr = "terminating"
  /\ vscr = "gone" => pc = "idle" /\ Quiet
  /\ vscr = "gone" => \A s \in SCs : vgr[s] # "live"
  /\ (vscr = "live" /\ ~fin) \/ pc = "validate" =>
       \A s \in SCs : vgr[s] = "absent" /\ vrc[s] = "absent" /\ opc[s] = "idle"
  /\ pc \in Deleting => \A s \in SCs : s \in todo \/ vgr[s] # "live"
  /\ pc \in Deleting \ {"delete"} => todo = {}
  /\ pc \in {"backend", "finalizer"} => Quiet

IInv == TypeOK /\ ContentInv /\ DeletionInv

LEMMA InitIInv == Init => IInv
<1> SUFFICES ASSUME Init PROVE IInv
  OBVIOUS
<1>1. TypeOK
  <2>1. /\ fin \in BOOLEAN /\ named \in BOOLEAN /\ pname \in BOOLEAN
        /\ ppath \in BOOLEAN /\ kind \in Kinds /\ setup \in SUBSET Filled
    BY DEF Init, Filled
  <2>2. /\ bound \in [SCs -> BOOLEAN] /\ blocks \in [SCs -> BOOLEAN]
        /\ cleaned \in [SCs -> BOOLEAN] /\ res \in [SCs -> BOOLEAN]
    BY DEF Init
  <2>3. faults \in 0..MaxFaults
    BY ConstellationConstants DEF ConstellationConstants, Init
  <2> QED
    BY <2>1, <2>2, <2>3 DEF Init, TypeOK
<1>2. ContentInv
  BY DEF Init, ContentInv
<1>3. DeletionInv
  BY DEF Init, DeletionInv, Deleting, Quiet
<1> QED
  BY <1>1, <1>2, <1>3 DEF IInv

\* Type correctness is preserved by every step.
LEMMA TypeStep ==
  ASSUME IInv, [Next]_vars
  PROVE  TypeOK'
<1> USE ConstellationConstants DEF ConstellationConstants, IInv, TypeOK, vars, vscrVars, objVars, vrcVars, worker
<1>1. CASE StartReconcile
  BY <1>1 DEF StartReconcile
<1>2. CASE VerifyPpath
  BY <1>2 DEF VerifyPpath
<1>3. CASE EnsurePpath
  BY <1>3 DEF EnsurePpath
<1>4. CASE StorePpathName
  BY <1>4 DEF StorePpathName
<1>5. CASE StartDeletion
  BY <1>5 DEF StartDeletion
<1>6. CASE ListVRCs
  BY <1>6 DEF ListVRCs, Labelled
<1>7. CASE DeleteBackend
  <2>1. ppath' \in BOOLEAN
    BY <1>7 DEF DeleteBackend
  <2> QED
    BY <1>7, <2>1 DEF DeleteBackend, Fault
<1>8. CASE RemoveFinalizer
  BY <1>8 DEF RemoveFinalizer
<1>9. CASE AbortVSCR
  BY <1>9 DEF AbortVSCR, Fault
<1>10. CASE Crash
  <2>1. opc' \in [SCs -> {"idle"}] /\ cpc' \in [SCs -> {"idle"}]
    BY <1>10 DEF Crash
  <2>2. todo' \in SUBSET SCs /\ pname' \in BOOLEAN
    BY <1>10 DEF Crash
  <2>3. faults' \in 0..MaxFaults
    BY <1>10 DEF Crash, Fault
  <2> QED
    BY <1>10, <2>1, <2>2, <2>3 DEF Crash
<1>11. CASE UserDeleteVSCR
  BY <1>11 DEF UserDeleteVSCR
<1>12. CASE LosePpath
  BY <1>12 DEF LosePpath
<1>13. ASSUME NEW s \in SCs, EnsureVGR(s)
      PROVE  TypeOK'
  BY <1>13 DEF EnsureVGR, NextToEnsure, EnsureClasses, ReplicationClass
<1>14. ASSUME NEW s \in SCs, SkipVGR(s)
      PROVE  TypeOK'
  BY <1>14 DEF SkipVGR, Fault, NextToEnsure, EnsureClasses, ReplicationClass
<1>15. ASSUME NEW s \in SCs, DeleteVGR(s)
      PROVE  TypeOK'
  BY <1>15 DEF DeleteVGR, Terminate
<1>16. ASSUME NEW s \in SCs, ReadVGR(s)
      PROVE  TypeOK'
  BY <1>16 DEF ReadVGR, VRCToCreate, VRCToDelete
<1>17. ASSUME NEW s \in SCs, DeleteVRC(s)
      PROVE  TypeOK'
  BY <1>17 DEF DeleteVRC, Terminate
<1>18. ASSUME NEW s \in SCs, CreateVRC(s)
      PROVE  TypeOK'
  BY <1>18 DEF CreateVRC
<1>19. ASSUME NEW s \in SCs, AbortObject(s)
      PROVE  TypeOK'
  BY <1>19 DEF AbortObject, Fault
<1>20. ASSUME NEW s \in SCs, ReadVRC(s)
      PROVE  TypeOK'
  BY <1>20 DEF ReadVRC, NextContentStep, ParentIsGoneOrTerminating,
                 ParentIsFullyGone, ParentIsTerminating
<1>21. ASSUME NEW s \in SCs, SelfDelete(s)
      PROVE  TypeOK'
  BY <1>21 DEF SelfDelete, Terminate
<1>22. ASSUME NEW s \in SCs, Provision(s)
      PROVE  TypeOK'
  BY <1>22 DEF Provision
<1>23. ASSUME NEW s \in SCs, Unblock(s)
      PROVE  TypeOK'
  BY <1>23 DEF Unblock, ParentIsTerminating
<1>24. ASSUME NEW s \in SCs, Clean(s)
      PROVE  TypeOK'
  BY <1>24 DEF Clean
<1>25. ASSUME NEW s \in SCs, Annotate(s)
      PROVE  TypeOK'
  BY <1>25 DEF Annotate
<1>26. ASSUME NEW s \in SCs, CheckPeers(s)
      PROVE  TypeOK'
  BY <1>26 DEF CheckPeers
<1>27. ASSUME NEW s \in SCs, RemoveVRCFinalizer(s)
      PROVE  TypeOK'
  BY <1>27 DEF RemoveVRCFinalizer
<1>28. ASSUME NEW s \in SCs, AbortContent(s)
      PROVE  TypeOK'
  BY <1>28 DEF AbortContent, Fault
<1>29. ASSUME NEW s \in SCs, UserDeleteVGR(s)
      PROVE  TypeOK'
  BY <1>29 DEF UserDeleteVGR
<1>30. ASSUME NEW s \in SCs, CsiAddonsAdopt(s)
      PROVE  TypeOK'
  BY <1>30 DEF CsiAddonsAdopt
<1>31. ASSUME NEW s \in SCs, CsiAddonsFinalize(s)
      PROVE  TypeOK'
  BY <1>31 DEF CsiAddonsFinalize
<1>32. ASSUME NEW s \in SCs, CollectVRC(s)
      PROVE  TypeOK'
  BY <1>32 DEF CollectVRC
<1>33. ASSUME NEW errs \in SUBSET SCs, CountVGRs(errs)
      PROVE  TypeOK'
  BY <1>33 DEF CountVGRs, Fault
<1>34. CASE ValidateOnce
  BY <1>34 DEF ValidateOnce
<1>35. CASE RejectVSCR
  <2>1. fin' \in BOOLEAN
    BY <1>35 DEF RejectVSCR
  <2>2. vscr' \in {"live", "terminating", "gone"} /\ faults' \in 0..MaxFaults
    BY <1>35 DEF RejectVSCR, Fault
  <2> QED
    BY <1>35, <2>1, <2>2 DEF RejectVSCR
<1>36. CASE UNCHANGED vars
  BY <1>36
<1>37. CASE SetUp
  <2>1. ASSUME NEW x \in Filled, FillIn(x), pc' = "idle" \/ UNCHANGED pc PROVE TypeOK'
    BY <2>1 DEF FillIn
  <2>2. {"peers", "dirs", "tenants"} \subseteq Filled
    BY DEF Filled
  <2> QED
    BY <1>37, <2>1, <2>2 DEF SetUp, ResolvePeers, PredictDirs, ResolveTenants
<1>38. ASSUME NEW s \in SCs, SkipUnnamedVR(s)
      PROVE  TypeOK'
  BY <1>38 DEF SkipUnnamedVR, NextToEnsure, EnsureClasses, ReplicationClass
<1> QED
  BY <1>1, <1>2, <1>3, <1>4, <1>5, <1>6, <1>7, <1>8, <1>9, <1>10, <1>11, <1>12, <1>13, <1>14, <1>15, <1>16, <1>17, <1>18, <1>19, <1>20, <1>21, <1>22, <1>23, <1>24, <1>25, <1>26, <1>27, <1>28, <1>29, <1>30, <1>31, <1>32, <1>33, <1>34, <1>35, <1>36, <1>37, <1>38
  DEF Next, VSCRStep, ObjectStep, ContentStep, Faults, Environment

\* A content worker only ever acts on the VRC it has read.
LEMMA ContentStepInv ==
  ASSUME IInv, [Next]_vars
  PROVE  ContentInv'
<1> USE ConstellationConstants DEF ConstellationConstants, IInv, TypeOK, ContentInv, vars, vscrVars, objVars, vrcVars, worker
<1>1. CASE StartReconcile
  BY <1>1 DEF StartReconcile
<1>2. CASE VerifyPpath
  BY <1>2 DEF VerifyPpath
<1>3. CASE EnsurePpath
  BY <1>3 DEF EnsurePpath
<1>4. CASE StorePpathName
  BY <1>4 DEF StorePpathName
<1>5. CASE StartDeletion
  BY <1>5 DEF StartDeletion
<1>6. CASE ListVRCs
  BY <1>6 DEF ListVRCs, Labelled
<1>7. CASE DeleteBackend
  BY <1>7 DEF DeleteBackend, Fault
<1>8. CASE RemoveFinalizer
  BY <1>8 DEF RemoveFinalizer
<1>9. CASE AbortVSCR
  BY <1>9 DEF AbortVSCR, Fault
<1>10. CASE Crash
  BY <1>10 DEF Crash, Fault
<1>11. CASE UserDeleteVSCR
  BY <1>11 DEF UserDeleteVSCR
<1>12. CASE LosePpath
  BY <1>12 DEF LosePpath
<1>13. ASSUME NEW s \in SCs, EnsureVGR(s)
      PROVE  ContentInv'
  BY <1>13 DEF EnsureVGR, NextToEnsure, EnsureClasses, ReplicationClass
<1>14. ASSUME NEW s \in SCs, SkipVGR(s)
      PROVE  ContentInv'
  BY <1>14 DEF SkipVGR, Fault, NextToEnsure, EnsureClasses, ReplicationClass
<1>15. ASSUME NEW s \in SCs, DeleteVGR(s)
      PROVE  ContentInv'
  BY <1>15 DEF DeleteVGR, Terminate
<1>16. ASSUME NEW s \in SCs, ReadVGR(s)
      PROVE  ContentInv'
  BY <1>16 DEF ReadVGR, VRCToCreate, VRCToDelete
<1>17. ASSUME NEW s \in SCs, DeleteVRC(s)
      PROVE  ContentInv'
  BY <1>17 DEF DeleteVRC, Terminate
<1>18. ASSUME NEW s \in SCs, CreateVRC(s)
      PROVE  ContentInv'
  BY <1>18 DEF CreateVRC
<1>19. ASSUME NEW s \in SCs, AbortObject(s)
      PROVE  ContentInv'
  BY <1>19 DEF AbortObject, Fault
<1>20. ASSUME NEW s \in SCs, ReadVRC(s)
      PROVE  ContentInv'
  BY <1>20 DEF ReadVRC, NextContentStep, ParentIsGoneOrTerminating,
                 ParentIsFullyGone, ParentIsTerminating
<1>21. ASSUME NEW s \in SCs, SelfDelete(s)
      PROVE  ContentInv'
  BY <1>21 DEF SelfDelete, Terminate
<1>22. ASSUME NEW s \in SCs, Provision(s)
      PROVE  ContentInv'
  BY <1>22 DEF Provision
<1>23. ASSUME NEW s \in SCs, Unblock(s)
      PROVE  ContentInv'
  BY <1>23 DEF Unblock, ParentIsTerminating
<1>24. ASSUME NEW s \in SCs, Clean(s)
      PROVE  ContentInv'
  BY <1>24 DEF Clean
<1>25. ASSUME NEW s \in SCs, Annotate(s)
      PROVE  ContentInv'
  BY <1>25 DEF Annotate
<1>26. ASSUME NEW s \in SCs, CheckPeers(s)
      PROVE  ContentInv'
  BY <1>26 DEF CheckPeers
<1>27. ASSUME NEW s \in SCs, RemoveVRCFinalizer(s)
      PROVE  ContentInv'
  BY <1>27 DEF RemoveVRCFinalizer
<1>28. ASSUME NEW s \in SCs, AbortContent(s)
      PROVE  ContentInv'
  BY <1>28 DEF AbortContent, Fault
<1>29. ASSUME NEW s \in SCs, UserDeleteVGR(s)
      PROVE  ContentInv'
  BY <1>29 DEF UserDeleteVGR
<1>30. ASSUME NEW s \in SCs, CsiAddonsAdopt(s)
      PROVE  ContentInv'
  BY <1>30 DEF CsiAddonsAdopt
<1>31. ASSUME NEW s \in SCs, CsiAddonsFinalize(s)
      PROVE  ContentInv'
  BY <1>31 DEF CsiAddonsFinalize
<1>32. ASSUME NEW s \in SCs, CollectVRC(s)
      PROVE  ContentInv'
  BY <1>32 DEF CollectVRC
<1>33. ASSUME NEW errs \in SUBSET SCs, CountVGRs(errs)
      PROVE  ContentInv'
  BY <1>33 DEF CountVGRs, Fault
<1>34. CASE ValidateOnce
  BY <1>34 DEF ValidateOnce
<1>35. CASE RejectVSCR
  BY <1>35 DEF RejectVSCR, Fault
<1>36. CASE UNCHANGED vars
  BY <1>36
<1>37. CASE SetUp
  BY <1>37 DEF SetUp, ResolvePeers, PredictDirs, ResolveTenants, FillIn
<1>38. ASSUME NEW s \in SCs, SkipUnnamedVR(s)
      PROVE  ContentInv'
  BY <1>38 DEF SkipUnnamedVR, NextToEnsure, EnsureClasses, ReplicationClass
<1> QED
  BY <1>1, <1>2, <1>3, <1>4, <1>5, <1>6, <1>7, <1>8, <1>9, <1>10, <1>11, <1>12, <1>13, <1>14, <1>15, <1>16, <1>17, <1>18, <1>19, <1>20, <1>21, <1>22, <1>23, <1>24, <1>25, <1>26, <1>27, <1>28, <1>29, <1>30, <1>31, <1>32, <1>33, <1>34, <1>35, <1>36, <1>37, <1>38
  DEF Next, VSCRStep, ObjectStep, ContentStep, Faults, Environment

\* handleDeletion makes progress that nothing undoes.
LEMMA DeletionStepInv ==
  ASSUME IInv, [Next]_vars
  PROVE  DeletionInv'
<1> USE ConstellationConstants DEF ConstellationConstants, IInv, TypeOK, ContentInv, DeletionInv, Deleting, Quiet, vars, vscrVars, objVars, vrcVars, worker
<1>1. CASE StartReconcile
  BY <1>1 DEF StartReconcile
<1>2. CASE VerifyPpath
  BY <1>2 DEF VerifyPpath
<1>3. CASE EnsurePpath
  BY <1>3 DEF EnsurePpath
<1>4. CASE StorePpathName
  BY <1>4 DEF StorePpathName
<1>5. CASE StartDeletion
  BY <1>5 DEF StartDeletion
<1>6. CASE ListVRCs
  BY <1>6 DEF ListVRCs, Labelled
<1>7. CASE DeleteBackend
  BY <1>7 DEF DeleteBackend, Fault
<1>8. CASE RemoveFinalizer
  BY <1>8 DEF RemoveFinalizer
<1>9. CASE AbortVSCR
  BY <1>9 DEF AbortVSCR, Fault
<1>10. CASE Crash
  BY <1>10 DEF Crash, Fault
<1>11. CASE UserDeleteVSCR
  BY <1>11 DEF UserDeleteVSCR
<1>12. CASE LosePpath
  BY <1>12 DEF LosePpath
<1>13. ASSUME NEW s \in SCs, EnsureVGR(s)
      PROVE  DeletionInv'
  BY <1>13 DEF EnsureVGR, NextToEnsure, EnsureClasses, ReplicationClass
<1>14. ASSUME NEW s \in SCs, SkipVGR(s)
      PROVE  DeletionInv'
  BY <1>14 DEF SkipVGR, Fault, NextToEnsure, EnsureClasses, ReplicationClass
<1>15. ASSUME NEW s \in SCs, DeleteVGR(s)
      PROVE  DeletionInv'
  BY <1>15 DEF DeleteVGR, Terminate
<1>16. ASSUME NEW s \in SCs, ReadVGR(s)
      PROVE  DeletionInv'
  BY <1>16 DEF ReadVGR, VRCToCreate, VRCToDelete
<1>17. ASSUME NEW s \in SCs, DeleteVRC(s)
      PROVE  DeletionInv'
  BY <1>17 DEF DeleteVRC, Terminate
<1>18. ASSUME NEW s \in SCs, CreateVRC(s)
      PROVE  DeletionInv'
  BY <1>18 DEF CreateVRC
<1>19. ASSUME NEW s \in SCs, AbortObject(s)
      PROVE  DeletionInv'
  BY <1>19 DEF AbortObject, Fault
<1>20. ASSUME NEW s \in SCs, ReadVRC(s)
      PROVE  DeletionInv'
  BY <1>20 DEF ReadVRC, NextContentStep, ParentIsGoneOrTerminating,
                 ParentIsFullyGone, ParentIsTerminating
<1>21. ASSUME NEW s \in SCs, SelfDelete(s)
      PROVE  DeletionInv'
  BY <1>21 DEF SelfDelete, Terminate
<1>22. ASSUME NEW s \in SCs, Provision(s)
      PROVE  DeletionInv'
  BY <1>22 DEF Provision
<1>23. ASSUME NEW s \in SCs, Unblock(s)
      PROVE  DeletionInv'
  BY <1>23 DEF Unblock, ParentIsTerminating
<1>24. ASSUME NEW s \in SCs, Clean(s)
      PROVE  DeletionInv'
  BY <1>24 DEF Clean
<1>25. ASSUME NEW s \in SCs, Annotate(s)
      PROVE  DeletionInv'
  BY <1>25 DEF Annotate
<1>26. ASSUME NEW s \in SCs, CheckPeers(s)
      PROVE  DeletionInv'
  BY <1>26 DEF CheckPeers
<1>27. ASSUME NEW s \in SCs, RemoveVRCFinalizer(s)
      PROVE  DeletionInv'
  BY <1>27 DEF RemoveVRCFinalizer
<1>28. ASSUME NEW s \in SCs, AbortContent(s)
      PROVE  DeletionInv'
  BY <1>28 DEF AbortContent, Fault
<1>29. ASSUME NEW s \in SCs, UserDeleteVGR(s)
      PROVE  DeletionInv'
  BY <1>29 DEF UserDeleteVGR
<1>30. ASSUME NEW s \in SCs, CsiAddonsAdopt(s)
      PROVE  DeletionInv'
  BY <1>30 DEF CsiAddonsAdopt
<1>31. ASSUME NEW s \in SCs, CsiAddonsFinalize(s)
      PROVE  DeletionInv'
  BY <1>31 DEF CsiAddonsFinalize
<1>32. ASSUME NEW s \in SCs, CollectVRC(s)
      PROVE  DeletionInv'
  BY <1>32 DEF CollectVRC
<1>33. ASSUME NEW errs \in SUBSET SCs, CountVGRs(errs)
      PROVE  DeletionInv'
  BY <1>33 DEF CountVGRs, Fault
<1>34. CASE ValidateOnce
  BY <1>34 DEF ValidateOnce
<1>35. CASE RejectVSCR
  BY <1>35 DEF RejectVSCR, Fault
<1>36. CASE UNCHANGED vars
  BY <1>36
<1>37. CASE SetUp
  BY <1>37 DEF SetUp, ResolvePeers, PredictDirs, ResolveTenants, FillIn
<1>38. ASSUME NEW s \in SCs, SkipUnnamedVR(s)
      PROVE  DeletionInv'
  BY <1>38 DEF SkipUnnamedVR, NextToEnsure, EnsureClasses, ReplicationClass
<1> QED
  BY <1>1, <1>2, <1>3, <1>4, <1>5, <1>6, <1>7, <1>8, <1>9, <1>10, <1>11, <1>12, <1>13, <1>14, <1>15, <1>16, <1>17, <1>18, <1>19, <1>20, <1>21, <1>22, <1>23, <1>24, <1>25, <1>26, <1>27, <1>28, <1>29, <1>30, <1>31, <1>32, <1>33, <1>34, <1>35, <1>36, <1>37, <1>38
  DEF Next, VSCRStep, ObjectStep, ContentStep, Faults, Environment

LEMMA IInvHolds == Spec => []IInv
<1>1. IInv /\ [Next]_vars => IInv'
  BY TypeStep, ContentStepInv, DeletionStepInv DEF IInv
<1> QED
  BY InitIInv, <1>1, PTL DEF Spec

\* Every variable keeps its type, for every N and every number of faults.
THEOREM TypeCorrect == Spec => []TypeOK
  BY IInvHolds, PTL DEF IInv

\* Backend objects and mirror PVCs never outlive the VRC that provisioned them.
THEOREM NoOrphans == Spec => []NoOrphanResources
<1>1. IInv => NoOrphanResources
  BY DEF IInv, ContentInv, NoOrphanResources
<1> QED
  BY IInvHolds, <1>1, PTL

\* No resources reappear behind the cleanup-done annotation.
THEOREM CleanupDoneIsTrue == Spec => []CleanedIsClean
<1>1. IInv => CleanedIsClean
  BY DEF IInv, ContentInv, CleanedIsClean
<1> QED
  BY IInvHolds, <1>1, PTL

\* handleDeletion removes the finalizer of the VSCR only when nothing that was
\* provisioned for any StorageClass is left, and nothing is provisioned later,
\* although reconcileVGR may still create VRCs that nobody watches over.
THEOREM VSCRLeavesNothing == Spec => []NoResourcesAfterVSCR
<1>1. IInv => NoResourcesAfterVSCR
  BY DEF IInv, DeletionInv, Quiet, NoResourcesAfterVSCR
<1> QED
  BY IInvHolds, <1>1, PTL

-----------------------------------------------------------------------------
(* Unless somebody deletes a VGR by hand, cleanup never takes PVCs away from *)
(* a VGR that csi-addons still has to finalize.                             *)

\* The part of a VSCR's life in which its worker may create VGRs.
LivePhase == vscr = "live" \/ pc \in {"validate", "setup", "status", "ensure"}

\* Until handleDeletion starts nothing terminates; a VRC is cleaned only after
\* its VGR is gone, and then no VGR is created any more.
WedgeInv ==
  /\ LivePhase => \A s \in SCs :
       /\ vgr[s] \in {"absent", "live"} /\ vrc[s] \in {"absent", "live"}
       /\ vrc[s] = "live" \/ opc[s] = "createVRC" => vgr[s] = "live"
       /\ opc[s] # "deleteVRC" /\ cpc[s] \in {"idle", "provision"}
  /\ \A s \in SCs : cpc[s] = "clean" => vgr[s] = "absent"
  /\ \A s \in SCs : bound[s] => vgr[s] # "absent"
  /\ NoWedgedVGR

LEMMA WedgeStep ==
  ASSUME IInv, WedgeInv, ManualDelete = {}, [Next]_vars
  PROVE  WedgeInv'
<1> USE DEF IInv, TypeOK, ContentInv, DeletionInv, Deleting, WedgeInv, LivePhase,
            NoWedgedVGR, vars, vscrVars, objVars, vrcVars, worker
<1>1. CASE StartReconcile
  BY <1>1 DEF StartReconcile
<1>2. CASE VerifyPpath
  BY <1>2 DEF VerifyPpath
<1>3. CASE EnsurePpath
  BY <1>3 DEF EnsurePpath
<1>4. CASE StorePpathName
  BY <1>4 DEF StorePpathName
<1>5. CASE StartDeletion
  BY <1>5 DEF StartDeletion
<1>6. CASE ListVRCs
  BY <1>6 DEF ListVRCs, Labelled
<1>7. CASE DeleteBackend
  BY <1>7 DEF DeleteBackend, Fault
<1>8. CASE RemoveFinalizer
  BY <1>8 DEF RemoveFinalizer
<1>9. CASE AbortVSCR
  BY <1>9 DEF AbortVSCR
<1>10. CASE Crash
  BY <1>10 DEF Crash
<1>11. CASE UserDeleteVSCR
  BY <1>11 DEF UserDeleteVSCR
<1>12. CASE LosePpath
  BY <1>12 DEF LosePpath
<1>13. ASSUME NEW s \in SCs, EnsureVGR(s)
      PROVE  WedgeInv'
  BY <1>13 DEF EnsureVGR, NextToEnsure, EnsureClasses, ReplicationClass
<1>14. ASSUME NEW s \in SCs, SkipVGR(s)
      PROVE  WedgeInv'
  BY <1>14 DEF SkipVGR, Fault, NextToEnsure, EnsureClasses, ReplicationClass
<1>15. ASSUME NEW s \in SCs, DeleteVGR(s)
      PROVE  WedgeInv'
  BY <1>15 DEF DeleteVGR, Terminate
<1>16. ASSUME NEW s \in SCs, ReadVGR(s)
      PROVE  WedgeInv'
  BY <1>16 DEF ReadVGR, VRCToCreate, VRCToDelete
<1>17. ASSUME NEW s \in SCs, DeleteVRC(s)
      PROVE  WedgeInv'
  BY <1>17 DEF DeleteVRC, Terminate
<1>18. ASSUME NEW s \in SCs, CreateVRC(s)
      PROVE  WedgeInv'
  BY <1>18 DEF CreateVRC
<1>19. ASSUME NEW s \in SCs, AbortObject(s)
      PROVE  WedgeInv'
  BY <1>19 DEF AbortObject
<1>20. ASSUME NEW s \in SCs, ReadVRC(s)
      PROVE  WedgeInv'
  BY <1>20 DEF ReadVRC, NextContentStep, ParentIsGoneOrTerminating,
                 ParentIsFullyGone, ParentIsTerminating
<1>21. ASSUME NEW s \in SCs, SelfDelete(s)
      PROVE  WedgeInv'
  BY <1>21 DEF SelfDelete, Terminate
<1>22. ASSUME NEW s \in SCs, Provision(s)
      PROVE  WedgeInv'
  BY <1>22 DEF Provision
<1>23. ASSUME NEW s \in SCs, Unblock(s)
      PROVE  WedgeInv'
  BY <1>23 DEF Unblock, ParentIsTerminating
<1>24. ASSUME NEW s \in SCs, Clean(s)
      PROVE  WedgeInv'
  BY <1>24 DEF Clean
<1>25. ASSUME NEW s \in SCs, Annotate(s)
      PROVE  WedgeInv'
  BY <1>25 DEF Annotate
<1>26. ASSUME NEW s \in SCs, CheckPeers(s)
      PROVE  WedgeInv'
  BY <1>26 DEF CheckPeers
<1>27. ASSUME NEW s \in SCs, RemoveVRCFinalizer(s)
      PROVE  WedgeInv'
  BY <1>27 DEF RemoveVRCFinalizer
<1>28. ASSUME NEW s \in SCs, AbortContent(s)
      PROVE  WedgeInv'
  BY <1>28 DEF AbortContent
<1>29. ASSUME NEW s \in SCs, UserDeleteVGR(s)
      PROVE  WedgeInv'
  BY <1>29 DEF UserDeleteVGR
<1>30. ASSUME NEW s \in SCs, CsiAddonsAdopt(s)
      PROVE  WedgeInv'
  BY <1>30 DEF CsiAddonsAdopt
<1>31. ASSUME NEW s \in SCs, CsiAddonsFinalize(s)
      PROVE  WedgeInv'
  BY <1>31 DEF CsiAddonsFinalize
<1>32. ASSUME NEW s \in SCs, CollectVRC(s)
      PROVE  WedgeInv'
  BY <1>32 DEF CollectVRC
<1>33. ASSUME NEW errs \in SUBSET SCs, CountVGRs(errs)
      PROVE  WedgeInv'
  BY <1>33 DEF CountVGRs
<1>34. CASE ValidateOnce
  BY <1>34 DEF ValidateOnce
<1>35. CASE RejectVSCR
  BY <1>35 DEF RejectVSCR, Fault
<1>36. CASE UNCHANGED vars
  BY <1>36
<1>37. CASE SetUp
  BY <1>37 DEF SetUp, ResolvePeers, PredictDirs, ResolveTenants, FillIn
<1>38. ASSUME NEW s \in SCs, SkipUnnamedVR(s)
      PROVE  WedgeInv'
  BY <1>38 DEF SkipUnnamedVR, NextToEnsure, EnsureClasses, ReplicationClass
<1> QED
  BY <1>1, <1>2, <1>3, <1>4, <1>5, <1>6, <1>7, <1>8, <1>9, <1>10, <1>11, <1>12, <1>13, <1>14, <1>15, <1>16, <1>17, <1>18, <1>19, <1>20, <1>21, <1>22, <1>23, <1>24, <1>25, <1>26, <1>27, <1>28, <1>29, <1>30, <1>31, <1>32, <1>33, <1>34, <1>35, <1>36, <1>37, <1>38
  DEF Next, VSCRStep, ObjectStep, ContentStep, Faults, Environment

\* The wait for the VGR to be fully gone in the VRC controller does what its
\* comment wants, as long as VGRs are only deleted together with their VSCR:
\* csi-addons always finds the PVCs it has adopted.
THEOREM CleanupWaitsForVGR == ManualDelete = {} /\ Spec => []NoWedgedVGR
<1> SUFFICES ASSUME ManualDelete = {} PROVE Spec => []NoWedgedVGR
  OBVIOUS
<1>1. Init => WedgeInv
  BY DEF Init, WedgeInv, LivePhase, NoWedgedVGR
<1>2. IInv /\ WedgeInv /\ [Next]_vars => WedgeInv'
  BY WedgeStep
<1>3. WedgeInv => NoWedgedVGR
  BY DEF WedgeInv
<1> QED
  BY <1>1, <1>2, <1>3, IInvHolds, PTL DEF Spec

-----------------------------------------------------------------------------
(* The VVR controller never creates a class without the name of the path.   *)

\* While its worker goes through the StorageClasses it has the name.
ClassInv ==
  kind = "VVR" => (pc = "ensure" => pname) /\ \A s \in SCs : class[s] # "empty"

LEMMA ClassStep ==
  ASSUME IInv, ClassInv, [Next]_vars
  PROVE  ClassInv'
<1> USE DEF IInv, TypeOK, ClassInv, vars, vscrVars, objVars, vrcVars, worker
<1>1. CASE VerifyPpath
  BY <1>1 DEF VerifyPpath
<1>2. CASE StorePpathName
  BY <1>2 DEF StorePpathName
<1>3. ASSUME NEW s \in SCs, EnsureVGR(s) \/ SkipVGR(s) \/ SkipUnnamedVR(s)
      PROVE  ClassInv'
  BY <1>3 DEF EnsureVGR, SkipVGR, SkipUnnamedVR, NextToEnsure, EnsureClasses, ReplicationClass
<1>4. CASE UNCHANGED <<kind, class>> /\ pc' # "ensure"
  BY <1>4
<1>5. CASE UNCHANGED <<kind, class, worker>>
  BY <1>5
<1>6. CASE StartReconcile \/ ValidateOnce \/ RejectVSCR \/ EnsurePpath \/ StartDeletion
             \/ ListVRCs \/ DeleteBackend \/ RemoveFinalizer \/ AbortVSCR \/ Crash
  BY <1>4, <1>6 DEF StartReconcile, ValidateOnce, RejectVSCR, EnsurePpath, StartDeletion,
       ListVRCs, DeleteBackend, RemoveFinalizer, AbortVSCR, Crash
<1>7. CASE SetUp
  BY <1>4, <1>7 DEF SetUp, ResolvePeers, PredictDirs, ResolveTenants, FillIn
<1>8. ASSUME NEW errs \in SUBSET SCs, CountVGRs(errs) PROVE ClassInv'
  BY <1>4, <1>8 DEF CountVGRs
<1>9. ASSUME NEW s \in SCs, DeleteVGR(s) PROVE ClassInv'
  BY <1>4, <1>9 DEF DeleteVGR
<1>10. ASSUME NEW s \in SCs, ObjectStep(s) \/ AbortObject(s) PROVE ClassInv'
  BY <1>5, <1>10 DEF ObjectStep, ReadVGR, DeleteVRC, CreateVRC, AbortObject
<1>11. ASSUME NEW s \in SCs, ContentStep(s) \/ AbortContent(s) PROVE ClassInv'
  BY <1>5, <1>11 DEF ContentStep, ReadVRC, SelfDelete, Provision, Unblock, Clean,
       Annotate, CheckPeers, RemoveVRCFinalizer, AbortContent
<1>12. CASE Environment \/ \E s \in SCs : CsiAddonsFinalize(s)
  BY <1>5, <1>12 DEF Environment, UserDeleteVSCR, LosePpath, UserDeleteVGR, CsiAddonsAdopt,
       CollectVRC, CsiAddonsFinalize
<1>13. CASE UNCHANGED vars
  BY <1>5, <1>13
<1> QED
  BY <1>1, <1>2, <1>3, <1>6, <1>7, <1>8, <1>9, <1>10, <1>11, <1>12, <1>13
  DEF Next, VSCRStep, Faults

\* The VVR controller builds a lost path anew before it goes on, so that the
\* immutable classes it creates always carry the name of the path.
THEOREM ClassesAreNamed == Spec => []ClassesNamed
<1>1. Init => ClassInv
  BY DEF Init, ClassInv
<1>2. IInv /\ ClassInv /\ [Next]_vars => ClassInv'
  BY ClassStep
<1>3. ClassInv => ClassesNamed
  BY DEF ClassInv, ClassesNamed
<1> QED
  BY <1>1, <1>2, <1>3, IInvHolds, PTL DEF Spec

-----------------------------------------------------------------------------
(* Constellation implements ContentLifecycle.                               *)

\* Every step is a step of the life cycle or leaves it alone.
LEMMA LifeStep ==
  ASSUME IInv, [Next]_vars
  PROVE  [Life!Next]_(Life!lifeVars)
<1> DEFINE Same == UNCHANGED <<vscr, Record, Held>>
<1> USE DEF vars, vscrVars, objVars, vrcVars, worker
<1>a. ASSUME Same PROVE [Life!Next]_(Life!lifeVars)
  BY <1>a DEF Life!lifeVars
<1>b. ASSUME UNCHANGED <<vscr, cleaned, res>>,
             \A s \in SCs : (vrc'[s] = "absent") <=> (vrc[s] = "absent")
      PROVE  Same
  BY <1>b DEF Record, Held
<1>1. CASE StartReconcile \/ ValidateOnce \/ VerifyPpath \/ EnsurePpath \/ StorePpathName
             \/ StartDeletion \/ ListVRCs \/ DeleteBackend \/ AbortVSCR \/ Crash \/ LosePpath
  BY <1>1, <1>a, <1>b DEF StartReconcile, ValidateOnce, VerifyPpath, EnsurePpath, StorePpathName,
       StartDeletion, ListVRCs, DeleteBackend, AbortVSCR, Crash, LosePpath
<1>2. CASE SetUp
  BY <1>2, <1>a, <1>b DEF SetUp, ResolvePeers, PredictDirs, ResolveTenants, FillIn
<1>3. ASSUME NEW errs \in SUBSET SCs, CountVGRs(errs) PROVE [Life!Next]_(Life!lifeVars)
  BY <1>3, <1>a, <1>b DEF CountVGRs
<1>4. ASSUME NEW s \in SCs,
             EnsureVGR(s) \/ SkipVGR(s) \/ SkipUnnamedVR(s) \/ DeleteVGR(s) \/ ReadVGR(s)
               \/ AbortObject(s) \/ ReadVRC(s) \/ Unblock(s) \/ CheckPeers(s) \/ AbortContent(s)
               \/ UserDeleteVGR(s) \/ CsiAddonsAdopt(s) \/ CsiAddonsFinalize(s)
      PROVE  [Life!Next]_(Life!lifeVars)
  BY <1>4, <1>a, <1>b DEF EnsureVGR, SkipVGR, SkipUnnamedVR, DeleteVGR, ReadVGR, AbortObject,
       ReadVRC, Unblock, CheckPeers, AbortContent, UserDeleteVGR, CsiAddonsAdopt,
       CsiAddonsFinalize
<1>5. ASSUME NEW s \in SCs, DeleteVRC(s) \/ SelfDelete(s) \/ CollectVRC(s)
      PROVE  [Life!Next]_(Life!lifeVars)
  <2>1. UNCHANGED <<vscr, cleaned, res>>
    BY <1>5 DEF DeleteVRC, SelfDelete, CollectVRC
  <2>2. \A t \in SCs : (vrc'[t] = "absent") <=> (vrc[t] = "absent")
    BY <1>5 DEF DeleteVRC, SelfDelete, CollectVRC, Terminate, IInv, TypeOK
  <2> QED
    BY <2>1, <2>2, <1>a, <1>b
<1>6. ASSUME NEW s \in SCs, CreateVRC(s) PROVE [Life!Next]_(Life!lifeVars)
  <2>1. CASE vrc[s] = "absent"
    <3>1. Life!Open(s)
      <4>1. ~cleaned[s]
        BY <2>1 DEF IInv, ContentInv
      <4>2. Record' = [Record EXCEPT ![s] = "open"] /\ Record[s] = "absent"
        <5>1. vrc' = [vrc EXCEPT ![s] = "live"] /\ cleaned' = cleaned
          BY <1>6, <2>1 DEF CreateVRC
        <5>2. \A t \in SCs : Record'[t] = IF t = s THEN "open" ELSE Record[t]
          BY <5>1, <4>1 DEF Record, IInv, TypeOK
        <5> QED
          BY <5>2, <2>1 DEF Record
      <4> QED
        BY <1>6, <4>2 DEF CreateVRC, Held, Life!Open
    <3> QED
      BY <3>1 DEF Life!Next
  <2>2. CASE vrc[s] # "absent"
    BY <1>6, <2>2, <1>a, <1>b DEF CreateVRC
  <2> QED
    BY <2>1, <2>2
<1>7. ASSUME NEW s \in SCs, Provision(s) PROVE [Life!Next]_(Life!lifeVars)
  <2>1. PICK made \in BOOLEAN : res' = [res EXCEPT ![s] = @ \/ made]
    BY <1>7 DEF Provision
  <2>2. UNCHANGED <<vscr, Record>>
    BY <1>7 DEF Provision, Record
  <2>3. vrc[s] # "absent" /\ ~cleaned[s] /\ vscr # "gone"
    BY <1>7 DEF Provision, IInv, ContentInv, DeletionInv, Quiet
  <2>4. CASE made
    <3>1. Held' = Held \cup {s}
      BY <2>1, <2>4 DEF Held, IInv, TypeOK
    <3>2. Life!Make(s)
      BY <2>2, <2>3, <3>1 DEF Life!Make, Record
    <3> QED
      BY <3>2 DEF Life!Next
  <2>5. CASE ~made
    <3>1. Held' = Held
      BY <2>1, <2>5 DEF Held, IInv, TypeOK
    <3> QED
      BY <3>1, <2>2, <1>a
  <2> QED
    BY <2>4, <2>5
<1>8. ASSUME NEW s \in SCs, Clean(s) PROVE [Life!Next]_(Life!lifeVars)
  <2>1. UNCHANGED <<vscr, Record>>
    BY <1>8 DEF Clean, Record
  <2>2. Held' = Held \ {s}
    BY <1>8 DEF Clean, Held, IInv, TypeOK
  <2>3. CASE cleaned[s]
    <3>1. s \notin Held
      BY <2>3 DEF Held, IInv, ContentInv
    <3> QED
      BY <3>1, <2>1, <2>2, <1>a
  <2>4. CASE ~cleaned[s]
    <3>1. Record[s] = "open"
      BY <1>8, <2>4 DEF Clean, Record, IInv, ContentInv
    <3>2. Life!Remove(s)
      BY <2>1, <2>2, <3>1 DEF Life!Remove
    <3> QED
      BY <3>2 DEF Life!Next
  <2> QED
    BY <2>3, <2>4
<1>9. ASSUME NEW s \in SCs, Annotate(s) PROVE [Life!Next]_(Life!lifeVars)
  <2>1. UNCHANGED <<vscr, Held>>
    BY <1>9 DEF Annotate, Held
  <2>2. vrc[s] = "terminating" /\ s \notin Held
    BY <1>9 DEF Annotate, Held, IInv, ContentInv
  <2>3. Record' = [Record EXCEPT ![s] = "sealed"]
    BY <1>9, <2>2 DEF Annotate, Record, IInv, TypeOK
  <2>4. CASE cleaned[s]
    <3>1. Record' = Record
      BY <1>9, <2>4 DEF Annotate, Record, IInv, TypeOK
    <3> QED
      BY <3>1, <2>1, <1>a
  <2>5. CASE ~cleaned[s]
    <3>1. Life!Seal(s)
      BY <2>1, <2>2, <2>3, <2>5 DEF Life!Seal, Record
    <3> QED
      BY <3>1 DEF Life!Next
  <2> QED
    BY <2>4, <2>5
<1>10. ASSUME NEW s \in SCs, RemoveVRCFinalizer(s) PROVE [Life!Next]_(Life!lifeVars)
  <2>1. UNCHANGED <<vscr, Held>>
    BY <1>10 DEF RemoveVRCFinalizer, Held
  <2>2. Record[s] = "sealed"
    BY <1>10 DEF RemoveVRCFinalizer, Record, IInv, ContentInv
  <2>3. Record' = [Record EXCEPT ![s] = "absent"]
    BY <1>10 DEF RemoveVRCFinalizer, Record, IInv, TypeOK
  <2>4. Life!Close(s)
    BY <2>1, <2>2, <2>3 DEF Life!Close
  <2> QED
    BY <2>4 DEF Life!Next
<1>11. ASSUME vscr # "gone", vscr' = "gone", Quiet, UNCHANGED <<vrc, cleaned, res>>
       PROVE  Life!End
  BY <1>11 DEF Life!End, Record, Held, Quiet
<1>12. CASE RemoveFinalizer
  <2>1. vscr # "gone" /\ Quiet
    BY <1>12 DEF RemoveFinalizer, IInv, DeletionInv, Deleting
  <2> QED
    BY <1>11, <1>12, <2>1 DEF RemoveFinalizer, Life!Next
<1>13. CASE RejectVSCR
  <2>1. Quiet
    BY <1>13 DEF RejectVSCR, IInv, ContentInv, DeletionInv, Quiet
  <2>2. CASE vscr' = vscr
    BY <1>13, <2>2, <1>a, <1>b DEF RejectVSCR
  <2>3. CASE vscr' # vscr
    BY <1>11, <1>13, <2>1, <2>3 DEF RejectVSCR, Life!Next
  <2> QED
    BY <2>2, <2>3
<1>14. CASE UserDeleteVSCR
  <2>1. CASE fin
    <3>1. Life!Delete
      BY <1>14, <2>1 DEF UserDeleteVSCR, Life!Delete, Record, Held
    <3> QED
      BY <3>1 DEF Life!Next
  <2>2. CASE ~fin
    <3>1. Quiet
      BY <1>14, <2>2 DEF UserDeleteVSCR, IInv, ContentInv, DeletionInv, Quiet
    <3> QED
      BY <1>11, <1>14, <2>2, <3>1 DEF UserDeleteVSCR, Life!Next
  <2> QED
    BY <2>1, <2>2
<1>15. CASE UNCHANGED vars
  BY <1>15, <1>a, <1>b
<1> QED
  BY <1>1, <1>2, <1>3, <1>4, <1>5, <1>6, <1>7, <1>8, <1>9, <1>10, <1>12, <1>13, <1>14, <1>15
  DEF Next, VSCRStep, ObjectStep, ContentStep, Faults, Environment

\* The detailed model, workers, stale reads, faults and all, is an implementation
\* of the life cycle, for every number of StorageClasses and of faults.
THEOREM Implementation == Spec => ImplementsLifecycle
<1>1. Init => Life!Init
  BY DEF Init, Life!Init, Record, Held
<1> QED
  BY <1>1, LifeStep, IInvHolds, PTL DEF Spec, ImplementsLifecycle, Life!Spec
=============================================================================
