-------------------------- MODULE BucketCredentials --------------------------
(***************************************************************************)
(* The two COSI controllers that work on the credentials of a BucketAccess  *)
(* (BA):                                                                    *)
(*                                                                          *)
(*  - the flattener writes what the credentials Secret holds to a Secret    *)
(*    and a ConfigMap named *-flat, when an annotation of the BA asks for   *)
(*    it, and removes them when it does not or the Secret's name changes;   *)
(*  - the resync controller makes the COSI sidecar grant access again when  *)
(*    the Secret is for another bucket than the BucketClaim's: it deletes   *)
(*    the flat pair and the Secret and clears the grant in the BA's status. *)
(*                                                                          *)
(* Each has one worker per BA; they interleave with each other, with the    *)
(* sidecar (external) and with users.  Both read Secrets and ConfigMaps     *)
(* from informers whose copies lag behind the API server, and write to the  *)
(* API server.  The event of a flat object comes when its informer catches  *)
(* up; that of the credentials Secret comes from another informer, which    *)
(* only carries metadata.                                                   *)
(*                                                                          *)
(* A look at a copy and the call decided from it are one step: a look that  *)
(* is older than the call is a copy that is still behind.                   *)
(***************************************************************************)
EXTENDS Naturals, FiniteSets

CONSTANTS Names,       \* credentialsSecretName, over the life of the BA
          MaxBuckets,  \* bound on how often the claim is recreated, plus one
          MaxChanges,  \* bound on what users change
          MaxFaults,   \* bound on failed calls and restarts
          MaxEvents    \* bound on changes and faults together

\* Credentials are told apart by their bucket: 0 is no Secret, Bad one without a
\* BucketInfo that ParseBucketInfo accepts.
Buckets == 1..MaxBuckets
Bad == MaxBuckets + 1
Absent == 0
Foreign == MaxBuckets + 2    \* a *-flat object that is not owned by the BA
NoName == "no name"

ASSUME BucketCredentialsConstants ==
  /\ Names # {} /\ IsFiniteSet(Names) /\ NoName \notin Names
  /\ MaxBuckets \in Nat \ {0} /\ MaxChanges \in Nat /\ MaxFaults \in Nat
  /\ MaxEvents \in Nat

VARIABLES
  wanted,   \* has the BA the annotation flatten-credentials?
  name,     \* spec.credentialsSecretName
  granted,  \* status.accessGranted and accountID
  bucket, ready, \* status.bucketName and bucketReady of the BucketClaim
  secret,   \* the credentials Secret of every name
  cached,   \* what the informer has of it
  flatSecret, flatMap, \* the *-flat Secret and ConfigMap of every name
  seenSecret, seenMap, \* what the informers have of them
  fq, fpc, fname, fdata, \* flattener: queued, control point, the name and
                         \* credentials it read
  stale,    \* did its last pass read a cache that was behind?
  rq, rpc, rname, rsec, \* resync: queued, control point, name, Secret to delete?
  misled,   \* did its last check find nothing to do in a cache that was behind?
  changes, faults

access == <<wanted, name, granted, bucket, ready>>
store == <<secret, cached>>
flats == <<flatSecret, flatMap>>
seen == <<seenSecret, seenMap>>
flattener == <<fpc, fname, fdata, stale>>
resync == <<rpc, rname, rsec, misled>>
vars == <<access, store, flats, seen, fq, flattener, rq, resync, changes, faults>>

FlatObjects == [Names -> {Absent, Foreign} \cup Buckets]

TypeOK ==
  /\ wanted \in BOOLEAN /\ name \in Names /\ granted \in BOOLEAN
  /\ bucket \in Buckets /\ ready \in BOOLEAN
  /\ secret \in [Names -> {Absent, Bad} \cup Buckets]
  /\ cached \in [Names -> {Absent, Bad} \cup Buckets]
  /\ flatSecret \in FlatObjects /\ flatMap \in FlatObjects
  /\ seenSecret \in FlatObjects /\ seenMap \in FlatObjects
  /\ fq \in BOOLEAN /\ fname \in Names \cup {NoName} /\ fdata \in {Absent} \cup Buckets
  /\ fpc \in {"idle", "wipemaps", "source", "secret", "configmap", "rollback"}
  /\ stale \in BOOLEAN
  /\ rq \in BOOLEAN /\ rname \in Names \cup {NoName} /\ rsec \in BOOLEAN
  /\ rpc \in {"idle", "flats", "flatmaps", "secret", "status"} /\ misled \in BOOLEAN
  /\ changes \in 0..MaxChanges /\ faults \in 0..MaxFaults

\* A BA whose credentials are to be flattened; the names are alike, and it starts with
\* any one of them.
Init ==
  /\ wanted = TRUE /\ name = CHOOSE n \in Names : TRUE
  /\ granted = FALSE /\ bucket = 1 /\ ready = FALSE
  /\ secret = [n \in Names |-> Absent] /\ cached = secret
  /\ flatSecret = secret /\ flatMap = secret /\ seenSecret = secret /\ seenMap = secret
  /\ fq = TRUE /\ fpc = "idle" /\ fname = NoName /\ fdata = Absent
  /\ stale = FALSE
  /\ rq = TRUE /\ rpc = "idle" /\ rname = NoName /\ rsec = FALSE
  /\ misled = FALSE
  /\ changes = 0 /\ faults = 0

Fault == faults < MaxFaults /\ changes + faults < MaxEvents /\ faults' = faults + 1
Change == changes < MaxChanges /\ changes + faults < MaxEvents /\ changes' = changes + 1

-----------------------------------------------------------------------------
(* Users, the COSI controller and sidecar, and the informer.                 *)

\* An update of the BA queues it in both controllers, one of the claim in the
\* resync controller, one of a Secret of that name in the flattener.
BAEvent == fq' = TRUE /\ rq' = TRUE

\* The claim is deleted and created again under its name: another bucket.
RecreateClaim ==
  /\ Change /\ bucket < MaxBuckets
  /\ bucket' = bucket + 1 /\ ready' = FALSE
  /\ rq' = TRUE
  /\ UNCHANGED <<wanted, name, granted, store, flats, seen, fq, flattener, resync, faults>>

ClaimReady ==
  /\ ~ready /\ ready' = TRUE
  /\ rq' = TRUE
  /\ UNCHANGED <<wanted, name, granted, bucket, store, flats, seen, fq, flattener, resync,
                 changes, faults>>

Annotate ==
  /\ Change /\ wanted' = ~wanted
  /\ BAEvent
  /\ UNCHANGED <<name, granted, bucket, ready, store, flats, seen, flattener, resync, faults>>

Rename(n) ==
  /\ Change /\ n # name /\ name' = n
  /\ BAEvent
  /\ UNCHANGED <<wanted, granted, bucket, ready, store, flats, seen, flattener, resync, faults>>

\* Somebody else creates, or deletes, an object with the name of a flat one.
CreateForeign(n) ==
  /\ Change
  /\ \/ flatSecret[n] = Absent /\ flatSecret' = [flatSecret EXCEPT ![n] = Foreign]
        /\ UNCHANGED flatMap
     \/ flatMap[n] = Absent /\ flatMap' = [flatMap EXCEPT ![n] = Foreign]
        /\ UNCHANGED flatSecret
  /\ UNCHANGED <<access, store, seen, fq, flattener, rq, resync, faults>>

DeleteForeign(n) ==
  /\ flatSecret[n] = Foreign \/ flatMap[n] = Foreign
  /\ flatSecret' = [flatSecret EXCEPT ![n] = IF @ = Foreign THEN Absent ELSE @]
  /\ flatMap' = [flatMap EXCEPT ![n] = IF @ = Foreign THEN Absent ELSE @]
  /\ UNCHANGED <<access, store, seen, fq, flattener, rq, resync, changes, faults>>

BreakSecret(n) ==
  /\ Change /\ secret[n] \in Buckets
  /\ secret' = [secret EXCEPT ![n] = Bad]
  /\ fq' = (fq \/ n = name)
  /\ UNCHANGED <<access, cached, flats, seen, flattener, rq, resync, faults>>

\* The sidecar grants access: it leaves a Secret that exists as it is, and
\* reports the grant afterwards.
CreateSecret ==
  /\ ~granted /\ ready /\ secret[name] = Absent
  /\ secret' = [secret EXCEPT ![name] = bucket]
  /\ fq' = TRUE
  /\ UNCHANGED <<access, cached, flats, seen, flattener, rq, resync, changes, faults>>

ReportGrant ==
  /\ ~granted /\ ready /\ secret[name] # Absent
  /\ granted' = TRUE
  /\ BAEvent
  /\ UNCHANGED <<wanted, name, bucket, ready, store, flats, seen, flattener, resync, changes, faults>>

\* One informer has all Secrets, another one all ConfigMaps: what each holds is what
\* there was at some earlier time.  When it catches up the owner of a flat object is
\* told, the former owner too; nobody is told of a credentials Secret: the flattener
\* watches its metadata with a third informer, the resync controller does not at all.
Told(copy, flat) ==
  \E n \in Names : copy[n] # flat[n] /\ {copy[n], flat[n]} \cap Buckets # {}

SyncSecrets ==
  /\ cached # secret \/ seenSecret # flatSecret
  /\ cached' = secret /\ seenSecret' = flatSecret
  /\ fq' = (fq \/ Told(seenSecret, flatSecret))
  /\ UNCHANGED <<access, secret, flats, seenMap, flattener, rq, resync, changes, faults>>

SyncConfigMaps ==
  /\ seenMap # flatMap
  /\ seenMap' = flatMap
  /\ fq' = (fq \/ Told(seenMap, flatMap))
  /\ UNCHANGED <<access, store, flats, seenSecret, flattener, rq, resync, changes, faults>>

-----------------------------------------------------------------------------
(* DeleteOwnedFlatPair, shared by the two controllers: a round for Secrets,  *)
(* then one for ConfigMaps.                                                  *)

\* What a round deletes: the objects listed as owned, but that of the name to keep
\* (mutant: keeps all of them when there is one).
MutantOwned(copy, keep) == {n \in Names : copy[n] \in Buckets /\ keep = NoName}
Owned(copy, keep) == {n \in Names : copy[n] \in Buckets /\ n # keep}

\* It deletes by name, whatever is there by then.
Without(flat, S) == [n \in Names |-> IF n \in S THEN Absent ELSE flat[n]]

-----------------------------------------------------------------------------
(* CredentialsFlattenerReconciler.Reconcile.                                 *)

\* A pass ends; an error, or an object in the way, has it run again.
Done == fpc' = "idle" /\ fname' = NoName /\ fdata' = Absent
Retry == Done /\ fq' = TRUE
Continue(pc) == fpc' = pc /\ UNCHANGED <<fq, fname, fdata>>

\* The name whose flat pair the BA asks for.
Asked == IF wanted THEN name ELSE NoName

\* Reads the BA and deletes the flat Secrets: all of them, or those of former names.
WipeSecrets ==
  /\ fpc = "idle" /\ fq
  /\ fq' = FALSE
  /\ fname' = Asked
  /\ flatSecret' = Without(flatSecret, Owned(seenSecret, fname'))
  /\ fpc' = "wipemaps"
  /\ UNCHANGED <<access, store, flatMap, seen, fdata, stale, rq, resync, changes, faults>>

WipeConfigMaps ==
  /\ fpc = "wipemaps"
  /\ flatMap' = Without(flatMap, Owned(seenMap, fname))
  /\ IF fname = NoName THEN Done /\ UNCHANGED fq ELSE Continue("source")
  /\ UNCHANGED <<access, store, flatSecret, seen, stale, rq, resync, changes, faults>>

\* Reads the credentials; while there are none that can be parsed it looks again
\* every 15 seconds and leaves the flat pair as it is (mutant: parses anything).
MutantReadSource ==
  /\ fpc = "source"
  /\ stale' = (cached[fname] # secret[fname])
  /\ IF cached[fname] # Absent
       THEN fdata' = cached[fname] /\ fpc' = "secret" /\ UNCHANGED <<fq, fname>>
       ELSE Retry
  /\ UNCHANGED <<access, store, flats, seen, rq, resync, changes, faults>>
ReadSource ==
  /\ fpc = "source"
  /\ stale' = (cached[fname] # secret[fname])
  /\ IF cached[fname] \in Buckets
       THEN fdata' = cached[fname] /\ fpc' = "secret" /\ UNCHANGED <<fq, fname>>
       ELSE Retry
  /\ UNCHANGED <<access, store, flats, seen, rq, resync, changes, faults>>

\* CreateOrUpdate of a flat object: the copy decides whether there is anything to
\* write, and the API server refuses to create an object that exists, or to update a
\* version that is not the one looked at (mutant: accepts any write).
MutantAccepted(flat, copy) == copy[fname] # Foreign
Accepted(flat, copy) == copy[fname] # Foreign /\ flat[fname] = copy[fname]

EnsureFlatSecret ==
  /\ fpc = "secret"
  /\ \/ seenSecret[fname] = fdata
        /\ Continue("configmap") /\ UNCHANGED flatSecret
     \/ seenSecret[fname] # fdata /\ Accepted(flatSecret, seenSecret)
        /\ flatSecret' = [flatSecret EXCEPT ![fname] = fdata]
        /\ Continue("configmap")
     \/ seenSecret[fname] # fdata /\ ~Accepted(flatSecret, seenSecret)
        /\ Retry /\ UNCHANGED flatSecret
  /\ UNCHANGED <<access, store, flatMap, seen, stale, rq, resync, changes, faults>>

EnsureFlatConfigMap ==
  /\ fpc = "configmap"
  /\ \/ seenMap[fname] = fdata
        /\ Done /\ UNCHANGED <<fq, flatMap>>
     \/ seenMap[fname] # fdata /\ Accepted(flatMap, seenMap)
        /\ flatMap' = [flatMap EXCEPT ![fname] = fdata]
        /\ Done /\ UNCHANGED fq
     \/ seenMap[fname] # fdata /\ ~Accepted(flatMap, seenMap)
        /\ Continue("rollback") /\ UNCHANGED flatMap
  /\ UNCHANGED <<access, store, flatSecret, seen, stale, rq, resync, changes, faults>>

\* rollbackFlatSecret, after any failure of the ConfigMap: nothing if the copy has
\* no Secret yet, or one of somebody else.
RollbackFlatSecret ==
  /\ fpc = "rollback"
  /\ flatSecret' = IF seenSecret[fname] \in Buckets THEN Without(flatSecret, {fname})
                                                    ELSE flatSecret
  /\ Retry
  /\ UNCHANGED <<access, store, flatMap, seen, stale, rq, resync, changes, faults>>

\* A call fails: in a round of deletions after some of them.
FlattenFails ==
  /\ Fault
  /\ \/ /\ fpc = "idle" /\ fq /\ Retry /\ UNCHANGED flatMap
        /\ \E S \in SUBSET Owned(seenSecret, Asked) : flatSecret' = Without(flatSecret, S)
     \/ /\ fpc = "wipemaps" /\ Retry /\ UNCHANGED flatSecret
        /\ \E S \in SUBSET Owned(seenMap, fname) : flatMap' = Without(flatMap, S)
     \/ fpc \in {"source", "secret", "rollback"} /\ Retry /\ UNCHANGED flats
     \/ fpc = "configmap" /\ Continue("rollback") /\ UNCHANGED flats
  /\ UNCHANGED <<access, store, seen, stale, rq, resync, changes>>

-----------------------------------------------------------------------------
(* BucketAccessSecretResyncReconciler.Reconcile and PokeSidecarRegrant.      *)

\* A granted BA with a ready claim whose Secret is missing, or for another bucket
\* (mutant: a missing Secret is nobody's business).
MutantNeedsPoke == granted /\ ready /\ cached[name] \in Buckets \ {bucket}
NeedsPoke == granted /\ ready /\ cached[name] \in {Absent} \cup (Buckets \ {bucket})

CheckSecret ==
  /\ rpc = "idle" /\ rq
  /\ rq' = FALSE
  /\ IF NeedsPoke
       THEN rpc' = "flats" /\ rname' = name /\ rsec' = (cached[name] # Absent)
       ELSE UNCHANGED <<rpc, rname, rsec>>
  /\ misled' = (~NeedsPoke /\ cached[name] # secret[name])
  /\ UNCHANGED <<access, store, flats, seen, fq, flattener, changes, faults>>

PokeFlatSecrets ==
  /\ rpc = "flats"
  /\ flatSecret' = Without(flatSecret, Owned(seenSecret, NoName))
  /\ rpc' = "flatmaps"
  /\ UNCHANGED <<access, store, flatMap, seen, fq, flattener, rq, rname, rsec, misled,
                 changes, faults>>

PokeFlatMaps ==
  /\ rpc = "flatmaps"
  /\ flatMap' = Without(flatMap, Owned(seenMap, NoName))
  /\ rpc' = IF rsec THEN "secret" ELSE "status"
  /\ UNCHANGED <<access, store, flatSecret, seen, fq, flattener, rq, rname, rsec, misled,
                 changes, faults>>

\* Takes the sidecar's finalizer off the Secret and deletes it, whichever it is.
PokeSecret ==
  /\ rpc = "secret"
  /\ secret' = [secret EXCEPT ![rname] = Absent]
  /\ fq' = (fq \/ (rname = name /\ secret' # secret))
  /\ rpc' = "status"
  /\ UNCHANGED <<access, cached, flats, seen, flattener, rq, rname, rsec, misled, changes,
                 faults>>

Stop == rpc' = "idle" /\ rname' = NoName /\ rsec' = FALSE

\* Clears the grant it read, on whatever version of the BA there is.
ClearGrant ==
  /\ rpc = "status"
  /\ granted' = FALSE
  /\ BAEvent
  /\ Stop
  /\ UNCHANGED <<wanted, name, bucket, ready, store, flats, seen, flattener, misled, changes,
                 faults>>

ResyncFails ==
  /\ rpc # "idle" /\ Fault
  /\ \/ /\ rpc = "flats" /\ UNCHANGED flatMap
        /\ \E S \in SUBSET Owned(seenSecret, NoName) : flatSecret' = Without(flatSecret, S)
     \/ /\ rpc = "flatmaps" /\ UNCHANGED flatSecret
        /\ \E S \in SUBSET Owned(seenMap, NoName) : flatMap' = Without(flatMap, S)
     \/ rpc \in {"secret", "status"} /\ UNCHANGED flats
  /\ Stop /\ rq' = TRUE
  /\ UNCHANGED <<access, store, seen, fq, flattener, misled, changes>>

\* A restarted manager has no requests and lists everything anew.
Crash ==
  /\ Fault
  /\ Done /\ Stop
  /\ cached' = secret /\ seenSecret' = flatSecret /\ seenMap' = flatMap
  /\ BAEvent
  /\ UNCHANGED <<access, secret, flats, stale, misled, changes>>

-----------------------------------------------------------------------------
Flatten ==
  \/ WipeSecrets \/ WipeConfigMaps \/ ReadSource
  \/ EnsureFlatSecret \/ EnsureFlatConfigMap \/ RollbackFlatSecret
Resync == CheckSecret \/ PokeFlatSecrets \/ PokeFlatMaps \/ PokeSecret \/ ClearGrant
Sidecar == CreateSecret \/ ReportGrant

Users ==
  \/ RecreateClaim \/ Annotate
  \/ \E n \in Names : Rename(n) \/ CreateForeign(n) \/ DeleteForeign(n) \/ BreakSecret(n)

Next ==
  \/ Flatten \/ Resync \/ Sidecar \/ ClaimReady \/ Users
  \/ SyncSecrets \/ SyncConfigMaps
  \/ FlattenFails \/ ResyncFails \/ Crash

Spec == Init /\ [][Next]_vars

\* Both controllers take what is in their queues (errors and waits put it back),
\* the sidecar grants what is not granted, and the informers catch up.
FairSpec ==
  /\ Spec
  /\ WF_vars(Flatten) /\ WF_vars(Resync) /\ WF_vars(Sidecar) /\ WF_vars(ClaimReady)
  /\ WF_vars(SyncSecrets) /\ WF_vars(SyncConfigMaps)

-----------------------------------------------------------------------------
(* Properties.                                                               *)

\* "design says never adopt/overwrite foreign": an object of somebody else that takes
\* the place of a flat one, between any two steps of the controllers and with a copy
\* that still shows the former object or none, keeps its contents; and once the copy
\* shows it neither controller deletes it.  (While the copy shows an owned object the
\* other one may be deleted: DeleteOwnedFlatPair and the rollback delete by name.)
Respected(flat, copy, n) ==
  flat[n] = Foreign => \/ flat'[n] = Foreign
                       \/ flat'[n] = Absent /\ (copy[n] \in Buckets \/ DeleteForeign(n))
ForeignKept ==
  [][\A n \in Names : /\ Respected(flatSecret, seenSecret, n)
                      /\ Respected(flatMap, seenMap, n)]_vars

\* The deletions of the resync controller, changes of the annotation, the name and the
\* Secret, and failures come between any two steps of a pass, and what a pass sees of the
\* flat objects is behind its own writes.  Yet when the flattener has nothing left to do
\* and nothing to be told, the wanted name has a flat pair, both halves for one bucket
\* (that of the Secret, unless the pass read a cache that was behind), and no other name
\* has one.
FlatSettled ==
  fpc = "idle" /\ ~fq /\ seenSecret = flatSecret /\ seenMap = flatMap =>
    \A n \in Names :
      IF wanted /\ n = name
      THEN /\ flatSecret[n] \in Buckets /\ flatMap[n] = flatSecret[n]
           /\ ~stale => flatSecret[n] = secret[n]
      ELSE flatSecret[n] \notin Buckets /\ flatMap[n] \notin Buckets

\* After the claim was recreated, or the Secret renamed, access is granted again
\* for the claim's bucket and stays granted: the resync controller, which acts on
\* cached Secrets, neither stops half way nor pokes the sidecar for ever.  Not if
\* the last check was satisfied with a Secret that had gone by then.
GrantConverges ==
  <>[](misled \/ (granted /\ secret[name] \in {bucket, Bad}))

\* The flat pair ends up with what the credentials Secret holds, both halves of it,
\* and nothing is left under another name or when it is not wanted any more,
\* whatever deletions of the resync controller came in between.  Not if the cache
\* was behind in the last pass, or an object of somebody else is in the way.
FlatConverges ==
  <>[](\/ stale \/ misled
       \/ \E n \in Names : Foreign \in {flatSecret[n], flatMap[n]}
       \/ \A n \in Names :
            IF wanted /\ n = name
            THEN secret[n] # Bad => flatSecret[n] = secret[n] /\ flatMap[n] = secret[n]
            ELSE flatSecret[n] = Absent /\ flatMap[n] = Absent)
=============================================================================
