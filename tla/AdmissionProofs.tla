-------------------------- MODULE AdmissionProofs --------------------------
(***************************************************************************)
(* What holds of Admission for any number of custom resources, any choice   *)
(* of StorageClasses and any number of edits and faults: no two VSCRs that  *)
(* share a StorageClass are ever taken on together, and no controller undoes *)
(* a failover requested of a resource that was taken on.                    *)
(***************************************************************************)
EXTENDS Admission, TLAPS

\* A worker whose write is admitted and whose version is the stored one will add
\* its finalizer unless somebody interferes, so it claims its StorageClasses as an
\* owner does.  The cache shows every owner and everyone who can become one.
Armed(x) == fresh[x] /\ obj[x] # None
Claims(x) == Owned(x) \/ (adm[x] /\ Armed(x))

\* What is known of one CR.
CRInv(x) ==
  /\ Owned(x) \/ Armed(x) => view[x] # None
  /\ adm[x] => pc[x] \in Writes
  /\ pc[x] = "validate" => Owned(x) /\ (copy[x].term => obj[x].term)
  /\ pc[x] = "peers" => copy[x].fin
  /\ x \in coming => obj[x] = None
  /\ kept[x] # None => TakenOn(x) /\ obj[x].primary = kept[x]

\* No two VSCRs claim the same StorageClass.
ClaimsApart == \A x, y \in VSCRs : Claims(x) /\ Claims(y) => ~Overlap(x, y)

IInv == TypeOK /\ (\A x \in CRs : CRInv(x)) /\ ClaimsApart

\* The parts of a CR that another CR's step leaves alone.
Same(z) ==
  /\ obj'[z] = obj[z] /\ view'[z] = view[z] /\ kept'[z] = kept[z]
  /\ pc'[z] = pc[z] /\ adm'[z] = adm[z] /\ copy'[z] = copy[z] /\ fresh'[z] = fresh[z]
  /\ z \in coming' => z \in coming

-----------------------------------------------------------------------------

LEMMA ObjectFields ==
  ASSUME NEW o \in Objects
  PROVE  /\ o.term \in BOOLEAN /\ o.fin \in BOOLEAN /\ o.peers \in BOOLEAN
         /\ o.primary \in Classes
         /\ o.term => o.fin
         /\ o # None
  BY AdmissionConstants DEF Objects, AdmissionConstants

\* The objects that writes produce from objects that were read.
LEMMA ObjectWrites ==
  ASSUME NEW o \in Objects, NEW t \in BOOLEAN, NEW p \in Classes
  PROVE  /\ [o EXCEPT !.primary = p] \in Objects
         /\ [o EXCEPT !.fin = TRUE, !.term = t] \in Objects
         /\ [o EXCEPT !.fin = FALSE, !.term = FALSE] \in Objects
         /\ o.fin => [o EXCEPT !.term = TRUE] \in Objects
         /\ o.fin => [o EXCEPT !.peers = TRUE, !.term = t] \in Objects
         /\ ~o.term => [o EXCEPT !.fin = FALSE] \in Objects
  BY DEF Objects

\* A step of one CR preserves the invariant when it does so for that CR and makes
\* no claim that the webhook would refuse.
LEMMA OneCR ==
  ASSUME IInv, NEW x \in CRs, TypeOK', \A z \in CRs : z # x => Same(z),
         CRInv(x)', Claims(x)' => Claims(x) \/ ~Blocked(x)
  PROVE  IInv'
<1>1. \A z \in CRs : z # x => CRInv(z)' /\ (Claims(z)' <=> Claims(z))
  BY DEF IInv, CRInv, Same, Claims, Armed, Owned, TakenOn
<1>2. ASSUME NEW z \in CRs, Claims(z) PROVE view[z] # None
  BY <1>2 DEF IInv, CRInv, Claims
<1>3. ASSUME NEW y \in VSCRs, NEW z \in VSCRs, Claims(y)', Claims(z)'
      PROVE  ~Overlap(y, z)
  <2>1. y \in CRs /\ z \in CRs
    BY DEF CRs
  <2>2. CASE y # x /\ z # x
    BY <1>1, <1>3, <2>1, <2>2 DEF IInv, ClaimsApart
  <2>3. CASE y = z
    BY <2>3 DEF Overlap
  <2>4. CASE y = x /\ z # x
    BY <1>1, <1>2, <1>3, <2>1, <2>4 DEF IInv, ClaimsApart, Blocked
  <2>5. CASE y # x /\ z = x
    <3>1. ~Overlap(z, y)
      BY <1>1, <1>2, <1>3, <2>1, <2>5 DEF IInv, ClaimsApart, Blocked
    <3> QED
      BY <3>1 DEF Overlap
  <2> QED
    BY <2>2, <2>3, <2>4, <2>5
<1>4. ClaimsApart'
  BY <1>3 DEF ClaimsApart, Overlap
<1> QED
  BY <1>1, <1>4 DEF IInv

-----------------------------------------------------------------------------
(* One lemma per action of a worker.                                        *)

\* A pass that ends without a write: one is refused, the CR has disappeared, or a
\* call failed.
LEMMA EndStep ==
  ASSUME IInv, NEW x \in CRs, pc[x] # "idle", EndPass(x),
         UNCHANGED <<obj, view, coming, kept, creates, edits>>, faults' \in 0..MaxFaults
  PROVE  IInv'
<1> USE DEF IInv, EndPass
<1>1. TypeOK'
  BY DEF TypeOK
<1>2. \A z \in CRs : z # x => Same(z)
  BY DEF TypeOK, Same
<1>3. kept[x] = None
  BY DEF CRInv, TakenOn
<1>4. CRInv(x)'
  BY <1>3 DEF CRInv, Owned, Armed, TypeOK
<1>5. Claims(x)' => Claims(x)
  BY DEF Claims, Owned, TypeOK
<1> QED
  BY <1>1, <1>2, <1>4, <1>5, OneCR

LEMMA StartStep ==
  ASSUME IInv, NEW x \in CRs, Start(x)
  PROVE  IInv'
<1> USE DEF IInv, Start
<1>1. Pending(view[x]) \in Writes
  BY DEF Pending, Writes
<1>2. TypeOK'
  BY <1>1 DEF TypeOK, bounds
<1>3. \A z \in CRs : z # x => Same(z)
  BY DEF TypeOK, Same
<1>4. ~adm[x] /\ kept[x] = None
  <2>1. ~adm[x]
    BY DEF CRInv, Writes
  <2>2. ~TakenOn(x)
    BY DEF TakenOn, Pending
  <2> QED
    BY <2>1, <2>2 DEF CRInv
<1>5. CRInv(x)'
  <2>1. Pending(view[x]) = "peers" => view[x].fin
    BY DEF Pending
  <2>2. pc'[x] = Pending(view[x]) /\ copy'[x] = view[x] /\ fresh'[x] = (view[x] = obj[x])
    BY DEF TypeOK
  <2> QED
    BY <1>1, <1>4, <2>1, <2>2 DEF CRInv, Owned, Armed, Writes
<1>6. Claims(x)' => Claims(x)
  BY <1>4 DEF Claims, Owned
<1> QED
  BY <1>2, <1>3, <1>5, <1>6, OneCR

LEMMA AdmitUpdateStep ==
  ASSUME IInv, NEW x \in CRs, AdmitUpdate(x)
  PROVE  IInv'
<1> USE DEF AdmitUpdate
<1>1. CASE Blocked(x)
  <2>1. pc[x] # "idle" /\ faults' \in 0..MaxFaults
    BY DEF IInv, TypeOK, Writes, bounds
  <2> QED
    BY <1>1, <2>1, EndStep DEF bounds
<1>2. CASE ~Blocked(x)
  <2> USE <1>2 DEF IInv
  <2>1. TypeOK'
    BY DEF TypeOK, bounds
  <2>2. \A z \in CRs : z # x => Same(z)
    BY DEF TypeOK, Same
  <2>3. CRInv(x)'
    BY DEF CRInv, Owned, Armed, TakenOn, Writes, TypeOK
  <2> QED
    BY <2>1, <2>2, <2>3, OneCR
<1> QED
  BY <1>1, <1>2

LEMMA ConflictStep ==
  ASSUME IInv, NEW x \in CRs, Conflict(x)
  PROVE  IInv'
<1> USE DEF IInv, Conflict
<1>1. TypeOK'
  BY DEF TypeOK, bounds, EndPass
<1>2. \A z \in CRs : z # x => Same(z)
  BY DEF TypeOK, Same, EndPass
<1>3. kept[x] = None /\ pc[x] \in Writes
  BY DEF CRInv, TakenOn, Writes
<1>4. adm'[x] = FALSE
  BY DEF TypeOK, EndPass
<1>5. CRInv(x)'
  <2>1. CASE EndPass(x)
    BY <1>3, <2>1 DEF CRInv, Owned, Armed, EndPass, TypeOK
  <2>2. CASE view[x] # None /\ UNCHANGED <<pc, copy>>
    BY <1>3, <1>4, <2>2 DEF CRInv, Owned, Armed, TypeOK
  <2> QED
    BY <2>1, <2>2
<1>6. Claims(x)' => Claims(x)
  BY <1>4 DEF Claims, Owned
<1> QED
  BY <1>1, <1>2, <1>5, <1>6, OneCR

LEMMA AddFinalizerStep ==
  ASSUME IInv, NEW x \in CRs, AddFinalizer(x)
  PROVE  IInv'
<1> USE DEF IInv, AddFinalizer, Accepted
<1> DEFINE o == [copy[x] EXCEPT !.fin = TRUE, !.term = obj[x].term]
<1>1. copy[x] \in Objects /\ obj[x] \in Objects
  BY DEF TypeOK
<1>2. o \in Objects /\ o.fin = TRUE
  <2>1. obj[x].term \in BOOLEAN
    BY <1>1, ObjectFields
  <2>2. o \in Objects
    BY <1>1, <2>1, ObjectWrites, ObjectFields
  <2> QED
    BY <1>1, <2>2 DEF Objects
<1>3. obj'[x] = o /\ copy'[x] = o /\ adm'[x] = FALSE /\ pc'[x] = "validate"
  BY DEF TypeOK
<1>4. o # None
  BY <1>2, ObjectFields
<1> HIDE DEF o
<1>5. TypeOK'
  <2>1. obj' = [obj EXCEPT ![x] = o] /\ copy' = [copy EXCEPT ![x] = o]
    BY <1>3 DEF o
  <2> QED
    BY <1>2, <1>4, <2>1 DEF TypeOK, bounds
<1>6. \A z \in CRs : z # x => Same(z)
  BY DEF TypeOK, Same
<1>7. kept[x] = None
  BY DEF CRInv, TakenOn
<1>8. view[x] # None
  BY DEF CRInv, Armed
<1>9. CRInv(x)'
  <2>1. Owned(x)' /\ (copy'[x].term => obj'[x].term)
    BY <1>2, <1>3, <1>4 DEF Owned
  <2>2. x \notin coming
    BY DEF CRInv
  <2> QED
    BY <1>3, <1>7, <1>8, <2>1, <2>2 DEF CRInv
<1>10. Claims(x)
  BY DEF Claims, Armed
<1> QED
  BY <1>5, <1>6, <1>9, <1>10, OneCR

LEMMA ValidateStep ==
  ASSUME IInv, NEW x \in CRs, Validate(x)
  PROVE  IInv'
<1> USE DEF IInv, Validate
<1>1. Owned(x) /\ kept[x] = None /\ adm[x] = FALSE
  BY DEF CRInv, TakenOn, Writes, TypeOK
<1>2. TypeOK'
  <2>1. CASE obj[x].peers
    BY <2>1 DEF TypeOK, bounds, EndPass
  <2>2. CASE ~obj[x].peers
    BY <2>2 DEF TypeOK, bounds, Writes
  <2> QED
    BY <2>1, <2>2
<1>3. \A z \in CRs : z # x => Same(z)
  BY DEF TypeOK, Same, EndPass
<1>4. CRInv(x)'
  <2>1. CASE obj[x].peers
    BY <1>1, <2>1 DEF CRInv, Owned, Armed, EndPass, TypeOK
  <2>2. CASE ~obj[x].peers
    BY <1>1, <2>2 DEF CRInv, Owned, Armed, TypeOK
  <2> QED
    BY <2>1, <2>2
<1>5. Claims(x)
  BY <1>1 DEF Claims
<1> QED
  BY <1>2, <1>3, <1>4, <1>5, OneCR

LEMMA RejectStep ==
  ASSUME IInv, NEW x \in CRs, Reject(x)
  PROVE  IInv'
<1> USE DEF IInv, Reject
<1> DEFINE o == IF Blocked(x) THEN obj[x]
                ELSE IF obj[x].term THEN None ELSE [copy[x] EXCEPT !.fin = FALSE]
<1>1. Owned(x) /\ kept[x] = None /\ (copy[x].term => obj[x].term)
  BY DEF CRInv, TakenOn
<1>2. copy[x] \in Objects /\ obj[x] \in Objects
  BY DEF TypeOK
<1>3. o \in Objects \cup {None}
  <2>1. CASE ~Blocked(x) /\ ~obj[x].term
    <3>1. [copy[x] EXCEPT !.fin = FALSE] \in Objects
      BY <1>1, <1>2, <2>1, ObjectWrites, ObjectFields
    <3> QED
      BY <2>1, <3>1
  <2>2. CASE Blocked(x) \/ obj[x].term
    BY <1>2, <2>2
  <2> QED
    BY <2>1, <2>2
<1>4. obj' = [obj EXCEPT ![x] = o]
  BY DEF TypeOK
<1> HIDE DEF o
<1>5. TypeOK'
  BY <1>3, <1>4 DEF TypeOK, bounds, EndPass
<1>6. \A z \in CRs : z # x => Same(z)
  BY <1>4 DEF TypeOK, Same, EndPass
<1>7. CRInv(x)'
  BY <1>1, <1>4 DEF CRInv, Owned, Armed, EndPass, TypeOK
<1>8. Claims(x)
  BY <1>1 DEF Claims
<1> QED
  BY <1>5, <1>6, <1>7, <1>8, OneCR

LEMMA StorePeersStep ==
  ASSUME IInv, NEW x \in CRs, StorePeers(x)
  PROVE  IInv'
<1> USE DEF IInv, StorePeers, Accepted
<1> DEFINE o == [copy[x] EXCEPT !.peers = TRUE, !.term = obj[x].term]
<1>1. copy[x] \in Objects /\ obj[x] \in Objects /\ copy[x].fin
  BY DEF TypeOK, CRInv
<1>2. o \in Objects
  <2>1. obj[x].term \in BOOLEAN
    BY <1>1, ObjectFields
  <2> QED
    BY <1>1, <2>1, ObjectWrites, ObjectFields
<1>3. obj' = [obj EXCEPT ![x] = o]
  OBVIOUS
<1> HIDE DEF o
<1>4. TypeOK'
  BY <1>2, <1>3 DEF TypeOK, bounds, EndPass
<1>5. \A z \in CRs : z # x => Same(z)
  BY <1>3 DEF TypeOK, Same, EndPass
<1>6. kept[x] = None /\ view[x] # None /\ x \notin coming
  BY DEF CRInv, TakenOn, Armed
<1>7. CRInv(x)'
  BY <1>6 DEF CRInv, EndPass, TypeOK
<1>8. Claims(x)
  BY DEF Claims, Armed
<1> QED
  BY <1>4, <1>5, <1>7, <1>8, OneCR

LEMMA RemoveFinalizerStep ==
  ASSUME IInv, NEW x \in CRs, RemoveFinalizer(x)
  PROVE  IInv'
<1> USE DEF IInv, RemoveFinalizer, Accepted
<1> DEFINE o == IF obj[x].term THEN None
                ELSE [copy[x] EXCEPT !.fin = FALSE, !.term = FALSE]
<1>1. copy[x] \in Objects /\ obj[x] \in Objects
  BY DEF TypeOK
<1>2. o \in Objects \cup {None}
  <2>1. [copy[x] EXCEPT !.fin = FALSE, !.term = FALSE] \in Objects
    BY <1>1, ObjectWrites, ObjectFields
  <2> QED
    BY <2>1
<1>3. obj' = [obj EXCEPT ![x] = o]
  BY DEF TypeOK
<1> HIDE DEF o
<1>4. TypeOK'
  BY <1>2, <1>3 DEF TypeOK, bounds, EndPass
<1>5. \A z \in CRs : z # x => Same(z)
  BY <1>3 DEF TypeOK, Same, EndPass
<1>6. kept[x] = None /\ view[x] # None /\ x \notin coming
  BY DEF CRInv, TakenOn, Armed
<1>7. CRInv(x)'
  BY <1>6 DEF CRInv, EndPass, TypeOK
<1>8. Claims(x)
  BY DEF Claims, Armed
<1> QED
  BY <1>4, <1>5, <1>7, <1>8, OneCR

-----------------------------------------------------------------------------
(* One lemma per action of the others.                                      *)

LEMMA AdmitCreateStep ==
  ASSUME IInv, NEW x \in CRs, AdmitCreate(x)
  PROVE  IInv'
<1> USE DEF IInv, AdmitCreate, worker
<1>1. TypeOK'
  BY AdmissionConstants DEF TypeOK, AdmissionConstants
<1>2. \A z \in CRs : z # x => Same(z)
  BY DEF Same
<1>3. CRInv(x)'
  BY DEF CRInv, Owned, Armed, TakenOn
<1>4. Claims(x)' => Claims(x)
  BY DEF Claims, Owned, Armed
<1> QED
  BY <1>1, <1>2, <1>3, <1>4, OneCR

LEMMA StoreCreateStep ==
  ASSUME IInv, NEW x \in CRs, StoreCreate(x)
  PROVE  IInv'
<1> USE DEF IInv, StoreCreate
<1>1. PICK named \in BOOLEAN :
        Write(x, [term |-> FALSE, fin |-> FALSE, peers |-> named, primary |-> Given[x]])
  OBVIOUS
<1> DEFINE o == [term |-> FALSE, fin |-> FALSE, peers |-> named, primary |-> Given[x]]
<1>2. o \in Objects /\ o.fin = FALSE
  BY AdmissionConstants DEF Objects, AdmissionConstants, Classes
<1>3. Write(x, o)
  BY <1>1
<1> HIDE DEF o
<1>4. obj[x] = None /\ kept[x] = None /\ pc[x] # "validate"
  BY DEF CRInv, TakenOn, Owned
<1>5. TypeOK'
  BY <1>2, <1>3 DEF TypeOK, bounds, Write
<1>6. \A z \in CRs : z # x => Same(z)
  BY <1>3 DEF TypeOK, Same, Write
<1>7. CRInv(x)'
  BY <1>2, <1>3, <1>4 DEF CRInv, Owned, Armed, TypeOK, Write
<1>8. ~Claims(x)'
  BY <1>2, <1>3 DEF Claims, Owned, Armed, TypeOK, Write
<1> QED
  BY <1>5, <1>6, <1>7, <1>8, OneCR

LEMMA EditStep ==
  ASSUME IInv, NEW x \in CRs, NEW primary \in Uses[x], Edit(x, primary)
  PROVE  IInv'
<1> USE DEF IInv, Edit
<1> DEFINE o == [obj[x] EXCEPT !.primary = primary]
<1>1. obj[x] \in Objects /\ primary \in Classes
  BY DEF TypeOK, Classes
<1>2. /\ o \in Objects /\ o # None /\ o.primary = primary
      /\ o.fin = obj[x].fin /\ o.peers = obj[x].peers /\ o.term = obj[x].term
  <2>1. o \in Objects
    BY <1>1, ObjectWrites
  <2> QED
    BY <1>1, <2>1, ObjectFields DEF Objects
<1>3. Write(x, o)
  OBVIOUS
<1> HIDE DEF o
<1>4. TypeOK'
  BY <1>1, <1>2, <1>3, AdmissionConstants DEF TypeOK, AdmissionConstants, Write
<1>5. \A z \in CRs : z # x => Same(z)
  BY <1>3 DEF TypeOK, Same, Write
<1>6. obj'[x] = o /\ fresh'[x] = FALSE /\ kept'[x] = IF TakenOn(x) THEN primary ELSE None
  BY <1>3 DEF TypeOK, Write
<1>7. TakenOn(x) => TakenOn(x)'
  BY <1>2, <1>6 DEF TakenOn
<1>8. CRInv(x)'
  BY <1>2, <1>6, <1>7 DEF CRInv, Owned, Armed
<1>9. Claims(x)' => Claims(x)
  BY <1>2, <1>6 DEF Claims, Owned, Armed
<1> QED
  BY <1>4, <1>5, <1>8, <1>9, OneCR

LEMMA DeleteCRStep ==
  ASSUME IInv, NEW x \in CRs, DeleteCR(x)
  PROVE  IInv'
<1> USE DEF IInv, DeleteCR
<1> DEFINE o == IF obj[x].fin THEN [obj[x] EXCEPT !.term = TRUE] ELSE None
<1>1. obj[x] \in Objects /\ obj[x] # None
  BY DEF TypeOK
<1>2. /\ o \in Objects \cup {None}
      /\ obj[x].fin => o # None /\ o.fin /\ o.term
      /\ ~obj[x].fin => o = None
  <2>1. CASE obj[x].fin
    <3>1. [obj[x] EXCEPT !.term = TRUE] \in Objects
      BY <1>1, <2>1, ObjectWrites, ObjectFields
    <3> QED
      BY <1>1, <2>1, <3>1, ObjectFields DEF Objects
  <2> QED
    BY <2>1
<1>3. /\ Write(x, o) /\ kept' = [kept EXCEPT ![x] = None]
      /\ UNCHANGED <<view, coming, pc, adm, copy, bounds>>
  OBVIOUS
<1> HIDE DEF o, DeleteCR
<1>4. TypeOK'
  BY <1>2, <1>3 DEF TypeOK, bounds, Write
<1>5. \A z \in CRs : z # x => Same(z)
  BY <1>3 DEF TypeOK, Same, Write
<1>6. obj'[x] = o /\ fresh'[x] = FALSE /\ kept'[x] = None
  BY <1>3 DEF TypeOK, Write
<1>7. CRInv(x)'
  BY <1>1, <1>2, <1>3, <1>6 DEF CRInv, Owned, Armed
<1>8. Claims(x)' => Claims(x)
  BY <1>1, <1>2, <1>3, <1>6 DEF Claims, Owned, Armed
<1> QED
  BY <1>4, <1>5, <1>7, <1>8, OneCR

LEMMA ObserveStep ==
  ASSUME IInv, NEW x \in CRs, Observe(x)
  PROVE  IInv'
<1> USE DEF IInv, Observe, worker
<1>1. TypeOK'
  BY DEF TypeOK, bounds
<1>2. \A z \in CRs : z # x => Same(z)
  BY DEF TypeOK, Same
<1>3. view'[x] = obj[x]
  BY DEF TypeOK
<1>4. CRInv(x)'
  BY <1>3 DEF CRInv, Owned, Armed, TakenOn
<1>5. Claims(x)' => Claims(x)
  BY DEF Claims, Owned, Armed
<1> QED
  BY <1>1, <1>2, <1>4, <1>5, OneCR

LEMMA CrashStep ==
  ASSUME IInv, Crash
  PROVE  IInv'
<1> USE DEF IInv, Crash
<1>1. TypeOK'
  BY AdmissionConstants DEF TypeOK, AdmissionConstants, Fault, Nothing, Nobody
<1>2. ASSUME NEW x \in CRs PROVE CRInv(x)' /\ (Claims(x)' => Claims(x))
  <2>1. /\ view'[x] = obj[x] /\ pc'[x] = "idle" /\ copy'[x] = None
        /\ adm'[x] = FALSE /\ fresh'[x] = FALSE
    BY DEF Nothing, Nobody
  <2> QED
    BY <2>1 DEF CRInv, Claims, Owned, Armed, TakenOn
<1>3. ClaimsApart'
  BY <1>2 DEF ClaimsApart, Overlap, CRs
<1> QED
  BY <1>1, <1>2, <1>3

-----------------------------------------------------------------------------

LEMMA InitIInv == Init => IInv
<1> SUFFICES ASSUME Init PROVE IInv
  OBVIOUS
<1> USE DEF Init, Nothing, Nobody
<1>1. TypeOK
  BY AdmissionConstants DEF TypeOK, AdmissionConstants
<1>2. \A x \in CRs : CRInv(x) /\ ~Claims(x)
  BY DEF CRInv, Claims, Owned, Armed
<1> QED
  BY <1>1, <1>2 DEF IInv, ClaimsApart, CRs

LEMMA NextIInv == IInv /\ [Next]_vars => IInv'
<1> SUFFICES ASSUME IInv, [Next]_vars PROVE IInv'
  OBVIOUS
<1>1. ASSUME NEW x \in CRs, WorkerStep(x) PROVE IInv'
  <2>1. ASSUME Vanished(x) PROVE IInv'
    <3>1. faults' \in 0..MaxFaults
      BY <2>1 DEF IInv, TypeOK, Vanished, bounds
    <3> QED
      BY <2>1, <3>1, EndStep DEF Vanished, bounds
  <2> QED
    BY <1>1, <2>1, StartStep, AdmitUpdateStep, ConflictStep, AddFinalizerStep,
       ValidateStep, StorePeersStep, RemoveFinalizerStep DEF WorkerStep
<1>2. ASSUME NEW x \in CRs, UserStep(x) PROVE IInv'
  BY <1>2, AdmitCreateStep, StoreCreateStep, DeleteCRStep, EditStep DEF UserStep
<1>3. ASSUME NEW x \in CRs, Abort(x) PROVE IInv'
  <2>1. faults' \in 0..MaxFaults
    BY <1>3, AdmissionConstants DEF IInv, TypeOK, Abort, Fault, AdmissionConstants
  <2> QED
    BY <1>3, <2>1, EndStep DEF Abort
<1>4. CASE UNCHANGED vars
  BY <1>4 DEF vars, worker, bounds, IInv, TypeOK, CRInv, ClaimsApart, Claims, Owned, Armed,
     TakenOn, Overlap
<1> QED
  BY <1>1, <1>2, <1>3, <1>4, RejectStep, ObserveStep, CrashStep DEF Next

\* IInv is an invariant of the controllers, the webhook and the users together.
THEOREM Invariance == Spec => []IInv
  BY InitIInv, NextIInv, PTL DEF Spec

\* The store holds well-formed objects, whatever is sent back to it: an object that
\* is being deleted keeps the finalizer that its deletion waits for, and a worker
\* that is about to write holds the object it will send.
THEOREM TypeCorrect == Spec => []TypeOK
  BY Invariance, PTL DEF IInv

\* Of several VSCRs that use the same StorageClass, at most one ever carries the
\* finalizer of the controller, although the webhook decides from a cache.
THEOREM AtMostOneOwner == Spec => []OneOwner
<1>1. IInv => OneOwner
  BY DEF IInv, ClaimsApart, Claims, OneOwner
<1> QED
  BY <1>1, Invariance, PTL

\* A failover requested of a CR that is taken on is never undone by a worker that
\* sends back an object it read earlier.
THEOREM FailoversKept == Spec => []EditsKept
<1>1. IInv => EditsKept
  BY DEF IInv, CRInv, EditsKept
<1> QED
  BY <1>1, Invariance, PTL
=============================================================================
