----------------------------- MODULE Admission -----------------------------
(***************************************************************************)
(* The custom resources of replication in the API server: who may write a   *)
(* VastStorageClassReplication (VSCR) or a VastVolumeReplication (VVR), and *)
(* what happens when several do.                                            *)
(*                                                                          *)
(* Every CREATE and UPDATE, those of the controllers included, is admitted  *)
(* by a webhook that reads the other CRs from the cache of the controller   *)
(* process, and is stored later: a write of somebody else may come between. *)
(* The store refuses an outdated version; the controllers then fetch the    *)
(* new version number and send their old object again.  The one replica of  *)
(* the controller serves the webhook and runs one worker per CR.            *)
(***************************************************************************)
EXTENDS Naturals

CONSTANTS VSCRs, VVRs,  \* names of the CRs that may be created
          Uses,         \* AllStorageClasses of each, fixed by its topology
          Given,        \* spec.primaryStorageClass each is created with
          None,         \* no object
          MaxCreates,   \* bound on creations,
          MaxEdits,     \* on edits by users,
          MaxFaults     \* and on failed calls and restarts

CRs == VSCRs \cup VVRs
Classes == UNION {Uses[x] : x \in CRs}

\* An object of the API server: is it being deleted, does it carry the finalizer
\* of its controller, does every entry of spec.protectionTopology name its peer,
\* and spec.primaryStorageClass.  Only a finalizer keeps a deleted object.
Objects ==
  {o \in [term : BOOLEAN, fin : BOOLEAN, peers : BOOLEAN, primary : Classes] : o.term => o.fin}

ASSUME AdmissionConstants ==
  /\ VSCRs \cap VVRs = {}
  /\ \A x \in CRs : Given[x] \in Uses[x]
  /\ None \notin Objects
  /\ MaxCreates \in Nat /\ MaxEdits \in Nat /\ MaxFaults \in Nat

VARIABLES
  obj,     \* the stored object of each CR
  view,    \* what the cache of the controller process holds
  coming,  \* CRs whose creation is admitted and not yet stored
  pc,      \* worker of each CR: what it is about to write
  adm,     \* has that write been admitted?
  copy,    \* the object the worker holds ...
  fresh,   \* ... and does it have the stored version?
  kept,    \* history: the failover last requested of a CR that was taken on
  creates, edits, faults

worker == <<pc, adm, copy, fresh>>
bounds == <<creates, edits, faults>>
vars == <<obj, view, coming, worker, kept, bounds>>

Writes == {"finalizer", "peers", "remove"}

TypeOK ==
  /\ obj \in [CRs -> Objects \cup {None}] /\ view \in [CRs -> Objects \cup {None}]
  /\ copy \in [CRs -> Objects \cup {None}] /\ kept \in [CRs -> Classes \cup {None}]
  /\ coming \subseteq CRs
  /\ pc \in [CRs -> Writes \cup {"idle", "validate"}]
  /\ adm \in [CRs -> BOOLEAN] /\ fresh \in [CRs -> BOOLEAN]
  /\ \A x \in CRs : pc[x] # "idle" => copy[x] # None
  /\ creates \in 0..MaxCreates /\ edits \in 0..MaxEdits /\ faults \in 0..MaxFaults

Nothing == [x \in CRs |-> None]
Nobody == [x \in CRs |-> FALSE]

Init ==
  /\ obj = Nothing /\ view = Nothing /\ copy = Nothing /\ kept = Nothing
  /\ coming = {}
  /\ pc = [x \in CRs |-> "idle"]
  /\ adm = Nobody /\ fresh = Nobody
  /\ creates = 0 /\ edits = 0 /\ faults = 0

Fault == faults < MaxFaults /\ faults' = faults + 1

\* The pass ends, and the worker forgets the object it held.
EndPass(x) ==
  /\ pc' = [pc EXCEPT ![x] = "idle"]
  /\ adm' = [adm EXCEPT ![x] = FALSE]
  /\ copy' = [copy EXCEPT ![x] = None]
  /\ fresh' = [fresh EXCEPT ![x] = FALSE]

\* Somebody else writes the object: the version the worker holds is outdated.
Write(x, o) ==
  /\ obj' = [obj EXCEPT ![x] = o]
  /\ fresh' = [fresh EXCEPT ![x] = FALSE]

-----------------------------------------------------------------------------
(* The webhook.                                                             *)

Overlap(x, y) == x # y /\ Uses[x] \cap Uses[y] # {}

\* validate: a VSCR is refused while another CR with one of its StorageClasses
\* is in the cache, on every CREATE and UPDATE.  A VVR is not checked (mutant:
\* nothing is).
MutantBlocked(x) == FALSE
Blocked(x) == x \in VSCRs /\ \E y \in CRs : view[y] # None /\ Overlap(x, y)

-----------------------------------------------------------------------------
(* Users.                                                                   *)

AdmitCreate(x) ==
  /\ creates < MaxCreates
  /\ obj[x] = None /\ x \notin coming /\ ~Blocked(x)
  /\ coming' = coming \cup {x}
  /\ creates' = creates + 1
  /\ UNCHANGED <<obj, view, worker, kept, edits, faults>>

\* The webhook has found the peers that an entry does not name, but the patch that
\* would store them is dropped: the CR is created as it was given.
StoreCreate(x) ==
  /\ x \in coming
  /\ coming' = coming \ {x}
  /\ \E named \in BOOLEAN :
       Write(x, [term |-> FALSE, fin |-> FALSE, peers |-> named, primary |-> Given[x]])
  /\ UNCHANGED <<view, pc, adm, copy, kept, bounds>>

\* A CR is taken on when it and the cache show finalizer and peers, and the worker
\* has no write under way.
TakenOn(x) ==
  /\ pc[x] = "idle" /\ obj[x] # None /\ view[x] # None
  /\ \A o \in {obj[x], view[x]} : o.fin /\ o.peers /\ ~o.term

\* A failover.  The topology cannot change (validateTopologyImmutable).
Edit(x, primary) ==
  /\ edits < MaxEdits
  /\ obj[x] # None /\ ~obj[x].term /\ ~Blocked(x) /\ primary # obj[x].primary
  /\ Write(x, [obj[x] EXCEPT !.primary = primary])
  /\ kept' = [kept EXCEPT ![x] = IF TakenOn(x) THEN primary ELSE None]
  /\ edits' = edits + 1
  /\ UNCHANGED <<view, coming, pc, adm, copy, creates, faults>>

\* A DELETE passes no webhook.
DeleteCR(x) ==
  /\ obj[x] # None /\ ~obj[x].term
  /\ Write(x, IF obj[x].fin THEN [obj[x] EXCEPT !.term = TRUE] ELSE None)
  /\ kept' = [kept EXCEPT ![x] = None]
  /\ UNCHANGED <<view, coming, pc, adm, copy, bounds>>

\* The informer delivers what is stored.
Observe(x) ==
  /\ view[x] # obj[x]
  /\ view' = [view EXCEPT ![x] = obj[x]]
  /\ UNCHANGED <<obj, coming, worker, kept, bounds>>

-----------------------------------------------------------------------------
(* The worker of a CR.  What it does besides writing the CR is in modules    *)
(* Constellation and Failover.                                              *)

\* What a pass writes first to the object it has read; one that has nothing to
\* write is not modelled (mutant: hasUnresolvedPeers is not asked).
MutantPending(o) == IF o.term THEN "remove" ELSE IF ~o.fin THEN "finalizer" ELSE "peers"
Pending(o) ==
  IF o.term THEN "remove"
  ELSE IF ~o.fin THEN "finalizer"
  ELSE IF ~o.peers THEN "peers" ELSE "idle"

\* Reconcile reads the CR from the cache.
Start(x) ==
  /\ pc[x] = "idle" /\ view[x] # None
  /\ Pending(view[x]) # "idle"
  /\ pc' = [pc EXCEPT ![x] = Pending(view[x])]
  /\ copy' = [copy EXCEPT ![x] = view[x]]
  /\ fresh' = [fresh EXCEPT ![x] = view[x] = obj[x]]
  /\ UNCHANGED <<obj, view, coming, adm, kept, bounds>>

\* Admission of an UPDATE; a refused one ends the pass (mutant: one that only adds
\* the finalizer is let through).
MutantAdmitUpdate(x) ==
  /\ pc[x] \in Writes /\ ~adm[x]
  /\ IF Blocked(x) /\ pc[x] # "finalizer" THEN EndPass(x)
     ELSE adm' = [adm EXCEPT ![x] = TRUE] /\ UNCHANGED <<pc, copy, fresh>>
  /\ UNCHANGED <<obj, view, coming, kept, bounds>>
AdmitUpdate(x) ==
  /\ pc[x] \in Writes /\ ~adm[x]
  /\ IF Blocked(x) THEN EndPass(x)
     ELSE adm' = [adm EXCEPT ![x] = TRUE] /\ UNCHANGED <<pc, copy, fresh>>
  /\ UNCHANGED <<obj, view, coming, kept, bounds>>

\* The store refuses an outdated version.  refreshObjectMetadata takes the number
\* of the cached version over, and nothing else.  After a few attempts the pass
\* ends, as it does when the CR has disappeared.
Conflict(x) ==
  /\ adm[x] /\ obj[x] # None /\ ~fresh[x]
  /\ \/ EndPass(x)
     \/ /\ view[x] # None
        /\ adm' = [adm EXCEPT ![x] = FALSE]
        /\ fresh' = [fresh EXCEPT ![x] = view[x] = obj[x]]
        /\ UNCHANGED <<pc, copy>>
  /\ UNCHANGED <<obj, view, coming, kept, bounds>>

Accepted(x) == adm[x] /\ obj[x] # None /\ fresh[x]

\* EnsureFinalizer: an Update of the whole object.  A deletion stays.
AddFinalizer(x) ==
  /\ pc[x] = "finalizer" /\ Accepted(x)
  /\ obj' = [obj EXCEPT ![x] = [copy[x] EXCEPT !.fin = TRUE, !.term = obj[x].term]]
  /\ copy' = [copy EXCEPT ![x] = obj'[x]]
  /\ adm' = [adm EXCEPT ![x] = FALSE]
  /\ pc' = [pc EXCEPT ![x] = "validate"]
  /\ UNCHANGED <<view, coming, fresh, kept, bounds>>

\* validateOnce passes.  The status is written, which no webhook refuses and which
\* hands the stored object back ...
Validate(x) ==
  /\ pc[x] = "validate" /\ obj[x] # None
  /\ IF obj[x].peers THEN EndPass(x)
     ELSE /\ pc' = [pc EXCEPT ![x] = "peers"]
          /\ copy' = [copy EXCEPT ![x] = obj[x]]
          /\ fresh' = [fresh EXCEPT ![x] = TRUE]
          /\ UNCHANGED adm
  /\ UNCHANGED <<obj, view, coming, kept, bounds>>

\* ... or fails, and the finalizer is taken off again if that Update succeeds.
Reject(x) ==
  /\ pc[x] = "validate" /\ obj[x] # None
  /\ EndPass(x)
  /\ obj' = IF Blocked(x) THEN obj
            ELSE [obj EXCEPT ![x] = IF @.term THEN None ELSE [copy[x] EXCEPT !.fin = FALSE]]
  /\ UNCHANGED <<view, coming, kept, bounds>>

\* ResolveAndFetchTopologyPeers, and an Update of the whole object.
StorePeers(x) ==
  /\ pc[x] = "peers" /\ Accepted(x)
  /\ obj' = [obj EXCEPT ![x] = [copy[x] EXCEPT !.peers = TRUE, !.term = obj[x].term]]
  /\ EndPass(x)
  /\ UNCHANGED <<view, coming, kept, bounds>>

\* handleDeletion has nothing left to wait for: RemoveFinalizer.  A namesake that
\* was created since only loses a finalizer.
RemoveFinalizer(x) ==
  /\ pc[x] = "remove" /\ Accepted(x)
  /\ obj' = [obj EXCEPT ![x] = IF @.term THEN None
                               ELSE [copy[x] EXCEPT !.fin = FALSE, !.term = FALSE]]
  /\ EndPass(x)
  /\ UNCHANGED <<view, coming, kept, bounds>>

\* NotFound: the CR has disappeared.
Vanished(x) ==
  /\ pc[x] # "idle" /\ obj[x] = None /\ (pc[x] \in Writes => adm[x])
  /\ EndPass(x)
  /\ UNCHANGED <<obj, view, coming, kept, bounds>>

\* A call fails, and the pass ends.
Abort(x) ==
  /\ Fault
  /\ pc[x] # "idle"
  /\ EndPass(x)
  /\ UNCHANGED <<obj, view, coming, kept, creates, edits>>

\* The process restarts with an empty cache, which is filled before it is used.
Crash ==
  /\ Fault
  /\ view' = obj
  /\ pc' = [x \in CRs |-> "idle"]
  /\ copy' = Nothing
  /\ adm' = Nobody /\ fresh' = Nobody
  /\ UNCHANGED <<obj, coming, kept, creates, edits>>

-----------------------------------------------------------------------------

WorkerStep(x) ==
  \/ Start(x) \/ AdmitUpdate(x) \/ Conflict(x) \/ AddFinalizer(x) \/ Validate(x)
  \/ StorePeers(x) \/ RemoveFinalizer(x) \/ Vanished(x)

UserStep(x) ==
  \/ AdmitCreate(x) \/ StoreCreate(x) \/ DeleteCR(x)
  \/ \E primary \in Uses[x] : Edit(x, primary)

Next ==
  \/ \E x \in CRs : WorkerStep(x) \/ Reject(x) \/ Observe(x) \/ UserStep(x) \/ Abort(x)
  \/ Crash

\* A pass that ends in an error is queued again, and the informer delivers.
Fairness == \A x \in CRs : WF_vars(WorkerStep(x)) /\ WF_vars(Observe(x))

Spec == Init /\ [][Next]_vars /\ Fairness

-----------------------------------------------------------------------------
(* Properties.                                                              *)

\* "Each StorageClass may appear in at most one VSCR" is not what the webhook can
\* promise: two creations may be admitted before either is stored.  What it does
\* promise is that the controller never takes on both: the update that adds the
\* finalizer is admitted too, and no cleanup, path or class is made without it.
Owned(x) == obj[x] # None /\ obj[x].fin
OneOwner == \A x, y \in VSCRs : Owned(x) /\ Owned(y) => ~Overlap(x, y)

\* The controllers send back whole objects they read earlier, also after a
\* conflict, so a failover requested while a CR is being taken on can be undone.
\* One that is requested later is not: nobody but the user changes the primary.
EditsKept == \A x \in CRs : kept[x] # None => obj[x].primary = kept[x]

\* The webhook refuses the removal of the finalizer of a VSCR as long as another CR
\* uses one of its StorageClasses.  No set of CRs can block each other that way:
\* when all are deleted, all disappear.
NothingToKeep == coming = {} /\ \A x \in CRs : obj[x] # None => obj[x].term
DeletionUnblocked == [](NothingToKeep => <>(~NothingToKeep \/ obj = Nothing))
=============================================================================
