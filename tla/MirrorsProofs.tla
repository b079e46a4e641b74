--------------------------- MODULE MirrorsProofs ---------------------------
(***************************************************************************)
(* What holds of Mirrors for any StorageClasses, PVCs and number of faults: *)
(* a mirror is not taken away while its source PVC is there, and none is    *)
(* mirrored in turn before that, with either reclaim policy.                *)
(***************************************************************************)
EXTENDS Mirrors, TLAPS, SequenceTheorems

\* A list names only PVCs of its own StorageClass.
ListInv == \A s \in SCs : \A id \in listed[s] \cup spec[s] : SCOf(id) = s

\* What a user's PVC goes through.  Once its VRC has listed it, it is listed until
\* it is gone.
SourceInv(v) ==
  /\ pvc[<<v>>] \in {"absent", "unbound", "free", "gone"}
  /\ <<v>> \in listed[Primary] \cup spec[Primary] => pvc[<<v>>] # "absent"
  /\ <<v>> \in spec[Primary] /\ pvc[<<v>>] # "gone" => <<v>> \in listed[Primary]

Known(v) == <<v>> \in spec[Primary] \/ pvc[<<v>>] = "gone"

\* A mirror has a source that was listed; a pass that will look for orphans has the
\* sources of all mirrors among the PVCs it gathered, but for those that are gone.
MirrorInv(v, s) ==
  /\ <<v>> \in plan[s] \/ pvc[<<v, s>>] # "absent" => Known(v)
  /\ cpc[s] # "idle" /\ pvc[<<v, s>>] = "managed" => <<v>> \in plan[s] \/ pvc[<<v>>] = "gone"

\* Only mirrors of PVCs that are gone lose their label, are gathered as sources, or have
\* mirrors of their own.
Gone(id) == pvc[<<VolOf(id)>>] = "gone"
LossInv ==
  /\ \A m \in FirstMirrors : pvc[m] = "free" => Gone(m)
  /\ \A id \in PVCs : Len(id) = MaxDepth /\ pvc[id] # "absent" => Gone(id)
  /\ \A s \in SCs : \A id \in plan[s] : id \in Sources \/ Gone(id)

IInv ==
  /\ TypeOK /\ ListInv /\ LossInv
  /\ \A v \in Vols : SourceInv(v) /\ \A s \in Secondaries : MirrorInv(v, s)

-----------------------------------------------------------------------------
(* The names of PVCs.                                                       *)

LEMMA AppendToOne ==
  ASSUME NEW T, NEW a \in T, NEW b \in T
  PROVE  Append(<<a>>, b) = <<a, b>> /\ SubSeq(<<a, b>>, 1, 1) = <<a>>
<1>1. Append(<<a>>, b) = <<a, b>>
  <2> DEFINE p == Append(<<a>>, b)
             q == <<a, b>>
  <2>1. p \in Seq(T) /\ q \in Seq(T) /\ Len(p) = 2 /\ Len(q) = 2
    OBVIOUS
  <2>2. p[1] = q[1] /\ p[2] = q[2]
    OBVIOUS
  <2> HIDE DEF p, q
  <2>3. \A i \in 1..Len(p) : p[i] = q[i]
    BY <2>1, <2>2
  <2>4. p = q
    BY <2>1, <2>3, SeqEqual
  <2> QED
    BY <2>4 DEF p, q
<1>2. SubSeq(<<a, b>>, 1, 1) = <<a>>
  <2> DEFINE p == SubSeq(<<a, b>>, 1, 1)
             q == <<a>>
  <2>1. p \in Seq(T) /\ q \in Seq(T) /\ Len(p) = 1 /\ Len(q) = 1
    OBVIOUS
  <2>2. p[1] = q[1]
    OBVIOUS
  <2> HIDE DEF p, q
  <2>3. \A i \in 1..Len(p) : p[i] = q[i]
    BY <2>1, <2>2
  <2>4. p = q
    BY <2>1, <2>3, SeqEqual
  <2> QED
    BY <2>4 DEF p, q
<1> QED
  BY <1>1, <1>2

LEMMA AppendToTwo ==
  ASSUME NEW T, NEW a \in T, NEW b \in T, NEW c \in T
  PROVE  Append(<<a, b>>, c) = <<a, b, c>>
<1> DEFINE p == Append(<<a, b>>, c)
           q == <<a, b, c>>
<1>1. p \in Seq(T) /\ q \in Seq(T) /\ Len(p) = 3 /\ Len(q) = 3
  OBVIOUS
<1>2. p[1] = q[1] /\ p[2] = q[2] /\ p[3] = q[3]
  OBVIOUS
<1> HIDE DEF p, q
<1>3. \A i \in 1..Len(p) : p[i] = q[i]
  BY <1>1, <1>2
<1>4. p = q
  BY <1>1, <1>3, SeqEqual
<1> QED
  BY <1>4 DEF p, q

\* A user's PVC and its mirror.
LEMMA FirstNames ==
  ASSUME NEW v \in Vols, NEW s \in SCs
  PROVE  /\ Len(<<v>>) = 1 /\ SCOf(<<v>>) = Primary /\ VolOf(<<v>>) = v
         /\ Len(<<v, s>>) = 2 /\ SCOf(<<v, s>>) = s /\ VolOf(<<v, s>>) = v
         /\ SourceOf(<<v, s>>) = <<v>> /\ MirrorOf(<<v>>, s) = <<v, s>>
<1>1. v \in Vols \cup SCs /\ s \in Vols \cup SCs
  OBVIOUS
<1>2. Append(<<v>>, s) = <<v, s>> /\ SubSeq(<<v, s>>, 1, 1) = <<v>>
  BY <1>1, AppendToOne
<1>3. SourceOf(<<v, s>>) = <<v>>
  <2>1. Len(<<v, s>>) - 1 = 1
    OBVIOUS
  <2> QED
    BY <1>2, <2>1 DEF SourceOf
<1>4. SCOf(<<v>>) = Primary /\ SCOf(<<v, s>>) = s
  BY DEF SCOf
<1> QED
  BY <1>2, <1>3, <1>4 DEF VolOf, MirrorOf

\* A mirror of a mirror.
LEMMA SecondNames ==
  ASSUME NEW v \in Vols, NEW s \in SCs, NEW t \in SCs
  PROVE  /\ MirrorOf(<<v, s>>, t) = <<v, s, t>> /\ Len(<<v, s, t>>) = 3
         /\ SCOf(<<v, s, t>>) = t /\ VolOf(<<v, s, t>>) = v
<1>1. Append(<<v, s>>, t) = <<v, s, t>>
  <2>1. v \in Vols \cup SCs /\ s \in Vols \cup SCs /\ t \in Vols \cup SCs
    OBVIOUS
  <2> QED
    BY <2>1, AppendToTwo
<1> QED
  BY <1>1 DEF SCOf, VolOf, MirrorOf

\* Every PVC is one or the other, told apart by the length of its name.
LEMMA Names ==
  ASSUME NEW id \in PVCs
  PROVE  \/ /\ \E v \in Vols : id = <<v>>
            /\ id \in Sources /\ Len(id) = 1 /\ SCOf(id) = Primary
         \/ /\ \E v \in Vols, s \in Secondaries : id = <<v, s>> /\ SCOf(id) = s
            /\ id \in FirstMirrors /\ id \notin Sources /\ Len(id) = 2
         \/ /\ \E v \in Vols, s \in Secondaries, t \in SCs : id = <<v, s, t>> /\ SCOf(id) = t
            /\ id \notin Sources /\ id \notin FirstMirrors /\ Len(id) = 3
<1>1. CASE id \in Sources
  <2>1. PICK v \in Vols : id = <<v>>
    BY <1>1 DEF Sources
  <2> QED
    BY <1>1, <2>1, FirstNames, MirrorsConstants
<1>2. CASE id \in FirstMirrors
  <2>1. PICK v \in Vols, s \in Secondaries : id = <<v, s>>
    BY <1>2 DEF FirstMirrors
  <2>2. SCOf(id) = s /\ Len(id) = 2
    BY <2>1, FirstNames DEF Secondaries
  <2>3. id \notin Sources
    BY <2>2 DEF Sources
  <2> QED
    BY <1>2, <2>1, <2>2, <2>3
<1>3. CASE id \in SecondMirrors
  <2>1. PICK m \in FirstMirrors, t \in SCs : id = Append(m, t)
    BY <1>3 DEF SecondMirrors
  <2>2. PICK v \in Vols, s \in Secondaries : m = <<v, s>>
    BY DEF FirstMirrors
  <2>3. id = <<v, s, t>> /\ SCOf(id) = t /\ Len(id) = 3
    <3>1. id = MirrorOf(<<v, s>>, t) /\ s \in SCs
      BY <2>1, <2>2 DEF Secondaries, MirrorOf
    <3>2. /\ MirrorOf(<<v, s>>, t) = <<v, s, t>> /\ Len(<<v, s, t>>) = 3
          /\ SCOf(<<v, s, t>>) = t
      BY <3>1, SecondNames
    <3>3. id = <<v, s, t>>
      BY <3>1, <3>2
    <3> QED
      BY <3>2, <3>3
  <2>4. id \notin Sources /\ id \notin FirstMirrors
    BY <2>3 DEF Sources, FirstMirrors
  <2> QED
    BY <2>2, <2>3, <2>4
<1> QED
  BY <1>1, <1>2, <1>3 DEF PVCs

LEMMA NameTypes ==
  ASSUME NEW id \in PVCs
  PROVE  SCOf(id) \in SCs /\ VolOf(id) \in Vols
  BY Names, FirstNames, SecondNames, MirrorsConstants DEF Secondaries, VolOf

\* A first mirror is named after the user's PVC only, and so is a mirror of depth
\* three after a mirror.
LEMMA MirrorNames ==
  ASSUME NEW src \in PVCs, NEW t \in SCs
  PROVE  /\ MirrorOf(src, t) \notin Sources
         /\ \A v \in Vols, s \in SCs : MirrorOf(src, t) = <<v, s>> => src = <<v>> /\ t = s
         /\ Len(MirrorOf(src, t)) = MaxDepth =>
              src \notin Sources /\ VolOf(MirrorOf(src, t)) = VolOf(src)
<1>1. CASE \E v \in Vols : src = <<v>>
  <2>1. PICK v \in Vols : src = <<v>>
    BY <1>1
  <2>2. MirrorOf(src, t) = <<v, t>> /\ Len(<<v, t>>) = 2
    BY <2>1, FirstNames
  <2>3. <<v, t>> \notin Sources
    BY <2>2 DEF Sources
  <2> QED
    BY <2>1, <2>2, <2>3 DEF MaxDepth
<1>2. CASE \E v \in Vols, s \in Secondaries : src = <<v, s>> /\ src \notin Sources
  <2>1. PICK v \in Vols, s \in Secondaries : src = <<v, s>>
    BY <1>2
  <2>0. s \in SCs
    BY DEF Secondaries
  <2>2. /\ MirrorOf(src, t) = <<v, s, t>>
        /\ VolOf(MirrorOf(src, t)) = v /\ VolOf(src) = v
    <3>1. MirrorOf(<<v, s>>, t) = <<v, s, t>> /\ VolOf(<<v, s, t>>) = v
      BY <2>0, SecondNames
    <3>2. VolOf(<<v, s>>) = v
      BY <2>0, FirstNames
    <3> QED
      BY <2>1, <3>1, <3>2
  <2> QED
    BY <1>2, <2>2 DEF Sources, MaxDepth
<1>3. CASE \E v \in Vols, s \in Secondaries, r \in SCs : src = <<v, s, r>> /\ src \notin Sources
  <2>1. PICK v \in Vols, s \in Secondaries, r \in SCs : src = <<v, s, r>>
    BY <1>3
  <2>2. Len(Append(<<v, s, r>>, t)) = 4
    OBVIOUS
  <2>3. Len(MirrorOf(src, t)) = 4
    BY <2>1, <2>2 DEF MirrorOf
  <2> QED
    BY <1>3, <2>3 DEF Sources, MaxDepth
<1> QED
  BY <1>1, <1>2, <1>3, Names

\* The volume and the source of a first mirror.
LEMMA FirstMirrorNames ==
  ASSUME NEW m \in FirstMirrors
  PROVE  /\ m \in PVCs /\ m \notin Sources
         /\ \E v \in Vols, s \in Secondaries : m = <<v, s>> /\ VolOf(m) = v
<1>1. PICK v \in Vols, s \in Secondaries : m = <<v, s>>
  BY DEF FirstMirrors
<1>2. VolOf(<<v, s>>) = v
  BY FirstNames DEF Secondaries
<1> QED
  BY <1>1, <1>2 DEF PVCs, Sources

\* The names the model gives to PVCs are PVCs, and sources are not mirrors.
LEMMA NamedPVCs ==
  ASSUME NEW v \in Vols
  PROVE  /\ <<v>> \in Sources /\ <<v>> \in PVCs
         /\ \A s \in Secondaries : /\ <<v, s>> \in FirstMirrors /\ <<v, s>> \in PVCs
                                   /\ <<v, s>> \notin Sources
         /\ \A w \in Vols : <<w>> = <<v>> => w = v
<1>1. <<v>> \in Sources
  BY DEF Sources
<1>2. \A s \in Secondaries : <<v, s>> \in FirstMirrors
  BY DEF FirstMirrors
<1>3. \A s \in Secondaries : <<v, s>> \notin Sources
  BY DEF Sources
<1> QED
  BY <1>1, <1>2, <1>3 DEF PVCs

-----------------------------------------------------------------------------
(* Types.                                                                   *)

LEMMA OperatorTypes ==
  ASSUME TypeOK, NEW s \in SCs
  PROVE  /\ Selected(s) \subseteq PVCs /\ Unmanaged \subseteq PVCs
         /\ Creatable(s) \subseteq Vols /\ Released \in {"free", "deleting"}
<1>1. Selected(s) \subseteq PVCs
  BY DEF Selected
<1>2. Unmanaged \subseteq PVCs
  BY DEF TypeOK, Unmanaged, Constellation
<1>3. Creatable(s) \subseteq Vols
  <2>1. plan[s] \subseteq PVCs
    BY DEF TypeOK
  <2>2. \A id \in plan[s] : VolOf(id) \in Vols
    BY <2>1, NameTypes
  <2> QED
    BY <2>2 DEF Creatable, ToProvision
<1> QED
  BY <1>1, <1>2, <1>3 DEF Released

LEMMA TypeStep ==
  ASSUME TypeOK, [Next]_vars
  PROVE  TypeOK'
<1>0. MaxFaults \in Nat /\ Primary \in SCs /\ Secondaries \subseteq SCs
  BY MirrorsConstants DEF Secondaries
<1>1. Fault => faults' \in 0..MaxFaults
  BY <1>0 DEF Fault, TypeOK
<1> USE <1>0 DEF TypeOK, cluster, objects, worker
<1>2. CASE UNCHANGED vars
  BY <1>2 DEF vars
<1>3. ASSUME NEW v \in Vols, CreatePVC(v) \/ Bind(v) \/ DeletePVC(v) PROVE TypeOK'
  BY <1>3, NamedPVCs DEF CreatePVC, Bind, DeletePVC
<1>4. ASSUME NEW v \in Vols, NEW s \in Secondaries, Replicate(v, s) PROVE TypeOK'
  BY <1>4 DEF Replicate
<1>5. ASSUME NEW id \in PVCs, Reap(id) PROVE TypeOK'
  BY <1>5, NameTypes DEF Reap
<1>6. ASSUME NEW s \in SCs, ListPVCs(s) PROVE TypeOK'
  BY <1>6, OperatorTypes DEF ListPVCs
<1>7. CASE Tick
  BY <1>7 DEF Tick
<1>8. ASSUME NEW s \in SCs, SyncVRCPVCs(s) PROVE TypeOK'
  <2>1. spec' \in [SCs -> SUBSET PVCs] /\ opc' \in {"idle", "touch"}
    BY <1>8 DEF SyncVRCPVCs
  <2>2. oq' \in [SCs -> BOOLEAN] /\ cq' \in [SCs -> BOOLEAN]
    BY <1>8 DEF SyncVRCPVCs
  <2> QED
    BY <1>8, <2>1, <2>2 DEF SyncVRCPVCs
<1>9. CASE TouchSecondaryVRCs
  BY <1>9 DEF TouchSecondaryVRCs
<1>10. CASE TouchFails
  BY <1>1, <1>10 DEF TouchFails
<1>11. ASSUME NEW s \in SCs, ClassifyConstellationPVCs(s) PROVE TypeOK'
  <2>0. Unmanaged \subseteq PVCs
    BY OperatorTypes
  <2>1. plan' \in [SCs -> SUBSET PVCs] /\ err' \in [SCs -> BOOLEAN]
    <3>1. \/ UNCHANGED <<plan, err>>
          \/ plan' = [plan EXCEPT ![s] = Unmanaged] /\ err' = [err EXCEPT ![s] = FALSE]
      BY <1>11 DEF ClassifyConstellationPVCs
    <3> QED
      BY <2>0, <3>1
  <2>2. cpc' \in [SCs -> {"idle", "objects", "mirrors", "orphans"}] /\ cq' \in [SCs -> BOOLEAN]
    BY <1>11 DEF ClassifyConstellationPVCs, Retry
  <2> QED
    BY <1>11, <2>1, <2>2 DEF ClassifyConstellationPVCs
<1>12. ASSUME NEW s \in SCs, ProvisionVolumeCb(s) PROVE TypeOK'
  BY <1>12, OperatorTypes DEF ProvisionVolumeCb, Retry
<1>13. ASSUME NEW s \in SCs, EnsureReplicaMirrors(s) PROVE TypeOK'
  BY <1>13 DEF EnsureReplicaMirrors
<1>14. ASSUME NEW s \in SCs, EnsureFails(s) PROVE TypeOK'
  BY <1>1, <1>14 DEF EnsureFails
<1>15. ASSUME NEW s \in SCs, ClusterUnreachable(s) PROVE TypeOK'
  BY <1>1, <1>15 DEF ClusterUnreachable
<1>16. ASSUME NEW s \in SCs, CleanReplicaMirrorOrphans(s) PROVE TypeOK'
  BY <1>16, OperatorTypes DEF CleanReplicaMirrorOrphans, Retry
<1>17. ASSUME NEW s \in SCs, CleanFails(s) PROVE TypeOK'
  BY <1>1, <1>17, OperatorTypes DEF CleanFails, Retry
<1>18. ASSUME NEW s \in SCs, AbortContent(s) PROVE TypeOK'
  BY <1>1, <1>18 DEF AbortContent, Retry
<1>19. CASE Crash
  BY <1>1, <1>19 DEF Crash
<1> QED
  BY <1>2, <1>3, <1>4, <1>5, <1>6, <1>7, <1>8, <1>9, <1>10, <1>11, <1>12, <1>13, <1>14, <1>15,
     <1>16, <1>17, <1>18, <1>19
  DEF Next, Users, Platform, ObjectStep, ContentStep, Faults

-----------------------------------------------------------------------------
(* The other parts of the invariant, and what a step does to a mirror.      *)

\* Everything but the types, and the two things no step does: to forget a source,
\* and to take a mirror away from a source that is there.
Rest ==
  /\ ListInv /\ LossInv
  /\ \A v \in Vols : SourceInv(v) /\ \A s \in Secondaries : MirrorInv(v, s)

Kept ==
  \A v \in Vols, s \in Secondaries :
    pvc[<<v, s>>] = "managed" /\ pvc'[<<v, s>>] # "managed" => pvc[<<v>>] = "gone"

\* A step that leaves the mirrors and the plans as they are, or takes from them, and does
\* not bring a PVC back keeps LossInv.
LEMMA LossStep ==
  ASSUME IInv, \A w \in Vols : pvc[<<w>>] = "gone" => pvc'[<<w>>] = "gone",
         \A id \in PVCs \ Sources : pvc'[id] \in {pvc[id], "absent"},
         \A s \in SCs : plan'[s] \subseteq plan[s]
  PROVE  LossInv'
<1>1. \A id \in PVCs : Gone(id) => Gone(id)'
  BY NameTypes DEF Gone
<1>2. \A m \in FirstMirrors : m \in PVCs /\ m \notin Sources
  BY FirstMirrorNames
<1>3. \A id \in PVCs : Len(id) = MaxDepth => id \notin Sources
  BY Names DEF MaxDepth
<1>4. \A s \in SCs : plan[s] \subseteq PVCs
  BY DEF IInv, TypeOK
<1> QED
  BY <1>1, <1>2, <1>3, <1>4 DEF IInv, LossInv

\* The steps of users and Kubernetes that change the PVC of a user.
LEMMA SourceStep ==
  ASSUME IInv, NEW v \in Vols, CreatePVC(v) \/ Bind(v) \/ DeletePVC(v)
  PROVE  Rest' /\ Kept
<1>1. /\ \A id \in PVCs : id # <<v>> => pvc'[id] = pvc[id]
      /\ pvc'[<<v>>] \in {"unbound", "free", "gone"}
      /\ pvc[<<v>>] \in {"absent", "unbound", "free"}
      /\ pvc[<<v>>] = "absent" => pvc'[<<v>>] # "gone"
  BY NamedPVCs DEF IInv, TypeOK, CreatePVC, Bind, DeletePVC
<1>2. UNCHANGED <<policy, listed, spec, plan, cpc>>
  BY DEF CreatePVC, Bind, DeletePVC, objects, worker
<1>3. ListInv'
  BY <1>2 DEF IInv, ListInv
<1>4. LossInv'
  <2>1. \A id \in PVCs \ Sources : pvc'[id] = pvc[id]
    BY <1>1, NamedPVCs
  <2>2. \A w \in Vols : pvc[<<w>>] = "gone" => pvc'[<<w>>] = "gone"
    BY <1>1, NamedPVCs
  <2> QED
    BY <1>2, <2>1, <2>2, LossStep
<1>5. \A w \in Vols : SourceInv(w)'
  BY <1>1, <1>2, NamedPVCs DEF IInv, SourceInv
<1>6. \A w \in Vols, s \in Secondaries : MirrorInv(w, s)' /\ pvc'[<<w, s>>] = pvc[<<w, s>>]
  <2> TAKE w \in Vols, s \in Secondaries
  <2>1. pvc'[<<w, s>>] = pvc[<<w, s>>] /\ (pvc[<<w>>] = "gone" => pvc'[<<w>>] = "gone")
    BY <1>1, NamedPVCs
  <2> QED
    BY <1>2, <2>1 DEF IInv, MirrorInv, Known
<1> QED
  BY <1>3, <1>4, <1>5, <1>6 DEF Rest, Kept

\* A deleted mirror disappears.
LEMMA ReapStep ==
  ASSUME IInv, NEW id \in PVCs, Reap(id)
  PROVE  Rest' /\ Kept
<1>1. /\ \A d \in PVCs : pvc'[d] = IF d = id THEN "absent" ELSE pvc[d]
      /\ pvc[id] = "deleting" /\ UNCHANGED <<policy, listed, spec, plan, cpc>>
  BY DEF IInv, TypeOK, Reap, objects, worker
<1>2. \A w \in Vols : pvc'[<<w>>] = pvc[<<w>>]
  BY <1>1, NamedPVCs DEF IInv, SourceInv
<1>3. ListInv' /\ LossInv'
  BY <1>1, <1>2, LossStep DEF IInv, ListInv
<1>4. \A w \in Vols : SourceInv(w)'
  BY <1>1, <1>2 DEF IInv, SourceInv
<1>5. \A w \in Vols, s \in Secondaries : MirrorInv(w, s)'
  BY <1>1, <1>2, NamedPVCs DEF IInv, MirrorInv, Known
<1> QED
  BY <1>1, <1>3, <1>4, <1>5, NamedPVCs DEF Rest, Kept

\* The status of a VGR lists what its selector finds.
LEMMA ListPVCsStep ==
  ASSUME IInv, NEW s \in SCs, ListPVCs(s)
  PROVE  Rest' /\ Kept
<1>1. /\ \A t \in SCs : listed'[t] = IF t = s THEN Selected(s) ELSE listed[t]
      /\ UNCHANGED <<policy, pvc, spec, plan, cpc>>
  BY DEF IInv, TypeOK, ListPVCs, cluster, worker
<1>2. ListInv' /\ LossInv'
  BY <1>1, LossStep DEF IInv, ListInv, Selected
<1>3. ASSUME NEW w \in Vols PROVE SourceInv(w)'
  <2>1. SCOf(<<w>>) = Primary /\ Primary \in SCs
    BY MirrorsConstants, FirstNames
  <2>2. SourceInv(w) /\ <<w>> \in PVCs /\ <<w>> \in Sources
    BY NamedPVCs DEF IInv
  <2>3. <<w>> \in Selected(Primary) <=> pvc[<<w>>] \in {"unbound", "free"}
    BY <2>1, <2>2 DEF Selected, SourceInv
  <2> QED
    BY <1>1, <2>1, <2>2, <2>3 DEF SourceInv
<1>4. \A w \in Vols, t \in Secondaries : MirrorInv(w, t)'
  BY <1>1 DEF IInv, MirrorInv, Known
<1> QED
  BY <1>1, <1>2, <1>3, <1>4 DEF Rest, Kept

\* The list of the VGR becomes that of the VRC.
LEMMA SyncVRCPVCsStep ==
  ASSUME IInv, NEW s \in SCs, SyncVRCPVCs(s)
  PROVE  Rest' /\ Kept
<1>1. /\ \A t \in SCs : spec'[t] = IF t = s THEN listed[s] ELSE spec[t]
      /\ UNCHANGED <<policy, pvc, listed, plan, cpc>>
  BY DEF IInv, TypeOK, SyncVRCPVCs, cluster, worker
<1>2. ListInv' /\ LossInv'
  BY <1>1, LossStep DEF IInv, ListInv
<1>3. \A w \in Vols : SourceInv(w)' /\ (Known(w) => Known(w)')
  BY <1>1, MirrorsConstants DEF IInv, SourceInv, Known
<1>4. \A w \in Vols, t \in Secondaries : MirrorInv(w, t)'
  BY <1>1, <1>3 DEF IInv, MirrorInv
<1> QED
  BY <1>1, <1>2, <1>3, <1>4 DEF Rest, Kept

\* A pass gathers the sources: a source with a mirror is bound and listed, or gone.
LEMMA ClassifyStep ==
  ASSUME IInv, NEW s \in SCs, ClassifyConstellationPVCs(s)
  PROVE  Rest' /\ Kept
<1>1. UNCHANGED <<policy, pvc, listed, spec>> /\ \A t \in SCs : t # s => plan'[t] = plan[t] /\ cpc'[t] = cpc[t]
  BY DEF IInv, TypeOK, ClassifyConstellationPVCs, Retry, cluster, objects
<1>2. \/ plan'[s] = plan[s] /\ cpc'[s] = "idle"
      \/ plan'[s] = Unmanaged /\ ~\E id \in Constellation : pvc[id] = "unbound"
  BY DEF IInv, TypeOK, ClassifyConstellationPVCs, Retry
<1>3. ListInv'
  BY <1>1 DEF IInv, ListInv
<1>4. \A w \in Vols : SourceInv(w)' /\ Known(w)' = Known(w)
  BY <1>1 DEF IInv, SourceInv, Known
<1>5. ASSUME NEW w \in Vols PROVE <<w>> \in Constellation <=> <<w>> \in spec[Primary]
  <2>1. SCOf(<<w>>) = Primary /\ Primary \in SCs
    BY FirstNames, MirrorsConstants
  <2>2. \A t \in SCs : <<w>> \in spec[t] => t = Primary
    BY <2>1 DEF IInv, ListInv
  <2> QED
    BY <2>1, <2>2 DEF Constellation
<1>6. LossInv'
  <2>1. \A id \in Unmanaged : id \in Sources \/ Gone(id)
    BY OperatorTypes, Names DEF IInv, LossInv, Unmanaged, MaxDepth
  <2>2. \A id : Gone(id)' = Gone(id)
    BY <1>1 DEF Gone
  <2> QED
    BY <1>1, <1>2, <2>1, <2>2 DEF IInv, LossInv
<1>7. ASSUME NEW w \in Vols, NEW t \in Secondaries PROVE MirrorInv(w, t)'
  <2>1. MirrorInv(w, t) /\ SourceInv(w) /\ t \in SCs
    BY DEF IInv, Secondaries
  <2>2. CASE t # s \/ (plan'[s] = plan[s] /\ cpc'[s] = "idle")
    BY <1>1, <1>4, <2>1, <2>2 DEF MirrorInv
  <2>3. CASE t = s /\ plan'[s] = Unmanaged /\ ~\E id \in Constellation : pvc[id] = "unbound"
    <3>1. <<w>> \in plan'[s] <=> <<w>> \in spec[Primary] /\ pvc[<<w>>] = "free"
      BY <1>5, <2>3 DEF Unmanaged
    <3>2. <<w>> \in spec[Primary] => pvc[<<w>>] \in {"free", "gone"}
      BY <1>5, <2>1, <2>3 DEF SourceInv
    <3> QED
      BY <1>1, <2>1, <2>3, <3>1, <3>2 DEF MirrorInv, Known
  <2> QED
    BY <1>2, <2>2, <2>3
<1> QED
  BY <1>1, <1>3, <1>4, <1>6, <1>7 DEF Rest, Kept

\* The worker makes mirrors of sources it gathered.
LEMMA EnsureStep ==
  ASSUME IInv, NEW s \in SCs, EnsureReplicaMirrors(s) \/ EnsureFails(s)
  PROVE  Rest' /\ Kept
<1>1. PICK done \in SUBSET Missing(s) :
        pvc' = [id \in PVCs |-> IF id \in done THEN "managed" ELSE pvc[id]]
  BY DEF EnsureReplicaMirrors, EnsureFails
<1>2. /\ UNCHANGED <<policy, listed, spec, plan>> /\ \A t \in SCs : t # s => cpc'[t] = cpc[t]
      /\ cpc[s] = "mirrors"
  BY DEF IInv, TypeOK, EnsureReplicaMirrors, EnsureFails, objects
<1>3. \A id \in done : /\ id \in PVCs /\ id \notin Sources /\ pvc[id] = "absent"
                       /\ \E src \in plan[s] : src \in PVCs /\ id = MirrorOf(src, s)
  BY <1>1, MirrorNames DEF Missing, OtherPairs, IInv, TypeOK
<1>4. /\ \A id \in PVCs : pvc'[id] = IF id \in done THEN "managed" ELSE pvc[id]
      /\ \A w \in Vols : pvc'[<<w>>] = pvc[<<w>>]
  BY <1>1, <1>3, NamedPVCs
<1>5. ListInv' /\ \A w \in Vols : SourceInv(w)' /\ Known(w)' = Known(w)
  BY <1>2, <1>4 DEF IInv, ListInv, SourceInv, Known
<1>6. LossInv'
  <2>1. \A id \in PVCs : Gone(id)' = Gone(id)
    BY <1>4, NameTypes DEF Gone
  <2>2. \A id \in done : Len(id) = MaxDepth => Gone(id)
    BY <1>3, MirrorNames DEF IInv, LossInv, Gone
  <2>3. \A m \in FirstMirrors : m \in PVCs
    BY DEF PVCs
  <2>4. \A t \in SCs : plan[t] \subseteq PVCs
    BY DEF IInv, TypeOK
  <2> QED
    BY <1>2, <1>4, <2>1, <2>2, <2>3, <2>4 DEF IInv, LossInv
<1>7. ASSUME NEW w \in Vols, NEW t \in Secondaries PROVE MirrorInv(w, t)'
  <2>1. MirrorInv(w, t) /\ t \in SCs /\ <<w, t>> \in PVCs
    BY NamedPVCs DEF IInv, Secondaries
  <2>2. <<w, t>> \in done => t = s /\ <<w>> \in plan[s]
    BY <1>3, <2>1, MirrorNames
  <2> QED
    BY <1>2, <1>4, <1>5, <2>1, <2>2 DEF MirrorInv
<1>8. Kept
  BY <1>4, NamedPVCs DEF Kept
<1> QED
  BY <1>5, <1>6, <1>7, <1>8 DEF Rest

\* The worker releases the mirrors whose sources it has not gathered.
LEMMA CleanStep ==
  ASSUME IInv, NEW s \in SCs, CleanReplicaMirrorOrphans(s) \/ CleanFails(s)
  PROVE  Rest' /\ Kept
<1>1. PICK done \in SUBSET Orphans(s) :
        pvc' = [id \in PVCs |-> IF id \in done THEN Released ELSE pvc[id]]
  BY DEF CleanReplicaMirrorOrphans, CleanFails
<1>2. /\ UNCHANGED <<policy, listed, spec>>
      /\ \A t \in SCs : t # s => cpc'[t] = cpc[t] /\ plan'[t] = plan[t]
      /\ cpc[s] = "orphans" /\ cpc'[s] = "idle" /\ plan'[s] = {}
  BY DEF IInv, TypeOK, CleanReplicaMirrorOrphans, CleanFails, Retry, objects
<1>3. \A id \in done : /\ id \in PVCs /\ id \notin Sources /\ pvc[id] = "managed"
                       /\ SCOf(id) = s /\ SourceOf(id) \notin OtherPairs(s)
  BY <1>1 DEF Orphans
<1>4. /\ \A id \in PVCs : pvc'[id] = IF id \in done THEN Released ELSE pvc[id]
      /\ \A w \in Vols : pvc'[<<w>>] = pvc[<<w>>]
  BY <1>1, <1>3, NamedPVCs
<1>5. Released # "managed"
  BY DEF Released
<1>6. ListInv' /\ \A w \in Vols : SourceInv(w)' /\ Known(w)' = Known(w)
  BY <1>2, <1>4 DEF IInv, ListInv, SourceInv, Known
<1>8. ASSUME NEW w \in Vols, NEW t \in Secondaries
      PROVE  MirrorInv(w, t)' /\ (<<w, t>> \in done => pvc[<<w>>] = "gone")
  <2>1. MirrorInv(w, t) /\ t \in SCs /\ <<w, t>> \in PVCs /\ t # Primary
    BY NamedPVCs DEF IInv, Secondaries
  <2>2. SCOf(<<w, t>>) = t /\ SourceOf(<<w, t>>) = <<w>> /\ SCOf(<<w>>) = Primary
    BY <2>1, FirstNames
  <2>3. <<w, t>> \in done => t = s /\ <<w>> \notin plan[s]
    BY <1>3, <2>1, <2>2 DEF OtherPairs
  <2> QED
    BY <1>2, <1>3, <1>4, <1>5, <1>6, <2>1, <2>3 DEF MirrorInv
<1>9. LossInv'
  <2>1. \A id \in PVCs : Gone(id)' = Gone(id)
    BY <1>4, NameTypes DEF Gone
  <2>2. \A m \in FirstMirrors : m \in PVCs /\ (m \in done => Gone(m))
    BY <1>8, FirstMirrorNames DEF Gone
  <2>3. \A t \in SCs : plan[t] \subseteq PVCs
    BY DEF IInv, TypeOK
  <2>4. \A id \in done : pvc[id] # "absent"
    BY <1>3
  <2> QED
    BY <1>2, <1>4, <2>1, <2>2, <2>3, <2>4 DEF IInv, LossInv
<1>10. Kept
  BY <1>4, <1>8, NamedPVCs DEF Kept
<1> QED
  BY <1>6, <1>8, <1>9, <1>10 DEF Rest

\* A pass that goes on or ends without looking for orphans.
LEMMA WorkerStep ==
  ASSUME IInv, UNCHANGED <<policy, pvc, listed, spec>>,
         \A s \in SCs : /\ plan'[s] = plan[s] \/ (plan'[s] = {} /\ cpc'[s] = "idle")
                        /\ cpc[s] = "idle" => cpc'[s] = "idle"
  PROVE  Rest' /\ Kept
<1>1. ListInv' /\ LossInv' /\ \A w \in Vols : SourceInv(w)' /\ Known(w)' = Known(w)
  BY LossStep DEF IInv, ListInv, SourceInv, Known
<1>2. \A w \in Vols, s \in Secondaries : MirrorInv(w, s)'
  BY <1>1 DEF IInv, MirrorInv, Secondaries
<1> QED
  BY <1>1, <1>2 DEF Rest, Kept

LEMMA RestStep ==
  ASSUME IInv, [Next]_vars
  PROVE  Rest' /\ Kept
<1>1. CASE UNCHANGED <<policy, pvc, listed, spec, plan, cpc>>
  BY <1>1, WorkerStep
<1>2. CASE \E v \in Vols : CreatePVC(v) \/ Bind(v) \/ DeletePVC(v)
  BY <1>2, SourceStep
<1>3. CASE \E id \in PVCs : Reap(id)
  BY <1>3, ReapStep
<1>4. CASE \E s \in SCs : ListPVCs(s) \/ SyncVRCPVCs(s) \/ ClassifyConstellationPVCs(s)
  BY <1>4, ListPVCsStep, SyncVRCPVCsStep, ClassifyStep
<1>5. CASE \E s \in SCs : \/ EnsureReplicaMirrors(s) \/ EnsureFails(s)
                          \/ CleanReplicaMirrorOrphans(s) \/ CleanFails(s)
  BY <1>5, EnsureStep, CleanStep
<1>6. ASSUME NEW s \in SCs, ProvisionVolumeCb(s) \/ ClusterUnreachable(s) \/ AbortContent(s)
      PROVE  Rest' /\ Kept
  <2>1. /\ UNCHANGED <<policy, pvc, listed, spec>> /\ cpc[s] # "idle"
        /\ \A t \in SCs : /\ plan'[t] = plan[t] \/ (plan'[t] = {} /\ cpc'[t] = "idle")
                          /\ t # s => cpc'[t] = cpc[t]
    BY <1>6 DEF ProvisionVolumeCb, ClusterUnreachable, AbortContent, Retry, cluster, objects,
                IInv, TypeOK
  <2> QED
    BY <2>1, WorkerStep
<1>7. CASE Crash
  BY <1>7, WorkerStep DEF Crash, cluster, objects
<1> QED
  BY <1>1, <1>2, <1>3, <1>4, <1>5, <1>6, <1>7
  DEF Next, Users, Platform, ObjectStep, ContentStep, Faults, Replicate, Tick,
      TouchSecondaryVRCs, TouchFails, vars, cluster, objects, worker

-----------------------------------------------------------------------------
(* The theorems.                                                            *)

LEMMA InitInv ==
  ASSUME Init
  PROVE  IInv
<1>1. TypeOK
  <2>1. 0 \in 0..MaxFaults
    BY MirrorsConstants
  <2> QED
    BY <2>1 DEF Init, TypeOK
<1>2. ListInv /\ LossInv
  BY FirstMirrorNames DEF Init, ListInv, LossInv
<1>3. \A v \in Vols : SourceInv(v) /\ \A s \in Secondaries : MirrorInv(v, s)
  BY NamedPVCs, MirrorsConstants DEF Init, SourceInv, MirrorInv, Known, Secondaries
<1> QED
  BY <1>1, <1>2, <1>3 DEF IInv

\* The inductive invariant.
THEOREM Inductive == Spec => []IInv
<1>1. Init => IInv
  BY InitInv
<1>2. IInv /\ [Next]_vars => IInv'
  BY TypeStep, RestStep DEF IInv, Rest
<1> QED
  BY <1>1, <1>2, PTL DEF Spec

\* The variables keep their types.
THEOREM TypeCorrect == Spec => []TypeOK
<1>1. IInv => TypeOK
  BY DEF IInv
<1> QED
  BY <1>1, Inductive, PTL

\* The anti-recursion guard of classifyConstellationPVCs, with either policy: a mirror is
\* mirrored in turn only when the user's PVC is gone, however stale the lists are.
THEOREM Guarded == Spec => []RecursionOnlyAfterLoss
<1>1. IInv => RecursionOnlyAfterLoss
  BY DEF IInv, LossInv, Gone, RecursionOnlyAfterLoss
<1> QED
  BY <1>1, Inductive, PTL

\* cleanReplicaMirrorOrphans takes a mirror away only after its source PVC is gone,
\* whatever order lists, touches, passes, faults and restarts come in.
THEOREM MirrorsAreKept == Spec => MirrorOutlivesSource
<1>1. IInv /\ [Next]_vars =>
        [\A m \in FirstMirrors :
           pvc[m] = "managed" /\ pvc'[m] # "managed" => pvc[SourceOf(m)] = "gone"]_vars
  <2> SUFFICES ASSUME IInv, [Next]_vars, NEW m \in FirstMirrors,
                      pvc[m] = "managed", pvc'[m] # "managed"
               PROVE  pvc[SourceOf(m)] = "gone"
    OBVIOUS
  <2>1. PICK v \in Vols, s \in Secondaries : m = <<v, s>>
    BY DEF FirstMirrors
  <2>2. SourceOf(m) = <<v>>
    BY <2>1, FirstNames DEF Secondaries
  <2> QED
    BY <2>1, <2>2, RestStep DEF Kept
<1> QED
  BY <1>1, Inductive, PTL DEF Spec, MirrorOutlivesSource
=============================================================================
