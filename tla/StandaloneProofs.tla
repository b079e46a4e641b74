-------------------------- MODULE StandaloneProofs --------------------------
(***************************************************************************)
(* What holds of the two components that share no state with any other:     *)
(*                                                                          *)
(*  - the lock of key_locker.go, for any number of goroutines, keys and     *)
(*    objects: although the map, the counter and the mutex are three        *)
(*    separate steps, the counter is exact and no entry stays in the map;   *)
(*  - the credential controllers of COSI, for any number of Secret names,   *)
(*    buckets, changes and faults: nothing of others is overwritten, and a  *)
(*    flattener with nothing to do has left one complete flat pair, or none.*)
(***************************************************************************)
EXTENDS KeyLocker, BucketCredentials, FiniteSetTheorems, TLAPS

\* The goroutines that object o counts.
UsersOf(o) == {p \in Procs : Active(p) /\ mine[p] = o}

\* A goroutine has an object and a key exactly while it is inside.
Inside ==
  \A p \in Procs : IF pc[p] = "idle" THEN mine[p] = None /\ key[p] = None
                                     ELSE mine[p] \in Objects /\ key[p] \in Keys

\* An object belongs to one key, also when it is no longer the one in the map, and
\* an object in the map has a goroutine that will drop it.
OneKey == \A p, q \in Procs : mine[p] # None /\ mine[p] = mine[q] => key[p] = key[q]
MapKey == \A p \in Procs, k \in Keys : mine[p] # None /\ mine[p] = locks[k] => key[p] = k
Backed == \A k \in Keys : locks[k] # None => \E p \in Procs : mine[p] = locks[k]

LockInv == LockTypeOK /\ Inside /\ RefCountExact /\ OneKey /\ MapKey /\ Backed

-----------------------------------------------------------------------------

LEMMA UsersFinite ==
  ASSUME NEW o
  PROVE  IsFiniteSet(UsersOf(o)) /\ Cardinality(UsersOf(o)) \in Nat
<1>1. IsFiniteSet(UsersOf(o))
  BY KeyLockerConstants, FS_Subset DEF KeyLockerConstants, UsersOf
<1> QED
  BY <1>1, FS_CardinalityType

\* The counter says how many users there are.
LEMMA RefIsUsers ==
  ASSUME LockInv, NEW o \in Objects
  PROVE  ref[o] = Cardinality(UsersOf(o))
  BY DEF LockInv, RefCountExact, UsersOf

\* Steps that change no object's users change no counter.
LEMMA SameUsers ==
  ASSUME LockInv, UNCHANGED ref, \A p \in Procs : Active(p)' <=> Active(p),
         \A p \in Procs : Active(p) => mine'[p] = mine[p]
  PROVE  RefCountExact'
<1>1. ASSUME NEW o \in Objects
      PROVE  {p \in Procs : Active(p) /\ mine[p] = o}' = {p \in Procs : Active(p) /\ mine[p] = o}
  OBVIOUS
<1> QED
  BY <1>1 DEF LockInv, RefCountExact

-----------------------------------------------------------------------------
(* One lemma per action.                                                    *)

LEMMA LoadOrStoreStep ==
  ASSUME LockInv, NEW p \in Procs, NEW k \in Keys, LoadOrStore(p, k)
  PROVE  LockInv'
<1> USE KeyLockerConstants DEF KeyLockerConstants
<1>1. PICK o \in Objects :
        /\ IF locks[k] = None THEN Fresh(o) ELSE o = locks[k]
        /\ locks' = [locks EXCEPT ![k] = o]
        /\ mine' = [mine EXCEPT ![p] = o]
  BY DEF LoadOrStore
<1>2. /\ pc[p] = "idle" /\ pc' = [pc EXCEPT ![p] = "loaded"]
      /\ key' = [key EXCEPT ![p] = k]
      /\ UNCHANGED <<ref, owner>>
  BY DEF LoadOrStore
<1>3. LockTypeOK'
  BY <1>1, <1>2 DEF LockInv, LockTypeOK, PCs
<1>4. Inside'
  BY <1>1, <1>2 DEF LockInv, LockTypeOK, Inside
<1>5. RefCountExact'
  <2>1. \A q \in Procs : Active(q)' <=> Active(q)
    BY <1>2 DEF LockInv, LockTypeOK, Active
  <2>2. \A q \in Procs : Active(q) => mine'[q] = mine[q]
    BY <1>1, <1>2 DEF LockInv, LockTypeOK, Active
  <2> QED
    BY <1>2, <2>1, <2>2, SameUsers
<1>6. mine[p] = None /\ mine'[p] = o /\ key'[p] = k /\ locks'[k] = o
  BY <1>1, <1>2 DEF LockInv, LockTypeOK, Inside
<1>7. \A q \in Procs \ {p} : mine'[q] = mine[q] /\ key'[q] = key[q]
  BY <1>1, <1>2 DEF LockInv, LockTypeOK
<1>8. \A l \in Keys \ {k} : locks'[l] = locks[l]
  BY <1>1 DEF LockInv, LockTypeOK
<1>9. \A q \in Procs : mine[q] = o => key[q] = k
  BY <1>1 DEF LockInv, MapKey, Fresh
<1>10. \A l \in Keys \ {k} : locks[l] # o
  BY <1>1 DEF LockInv, MapKey, Backed, Fresh
<1>11. OneKey'
  BY <1>6, <1>7, <1>9 DEF LockInv, OneKey
<1>12. MapKey'
  BY <1>6, <1>7, <1>8, <1>9, <1>10 DEF LockInv, MapKey
<1>13. Backed'
  <2>1. ASSUME NEW l \in Keys, l # k, locks'[l] # None
        PROVE  \E q \in Procs : mine'[q] = locks'[l]
    BY <2>1, <1>6, <1>7, <1>8 DEF LockInv, Backed
  <2> QED
    BY <2>1, <1>6 DEF Backed
<1> QED
  BY <1>3, <1>4, <1>5, <1>11, <1>12, <1>13 DEF LockInv

LEMMA AddRefStep ==
  ASSUME LockInv, NEW p \in Procs, AddRef(p)
  PROVE  LockInv'
<1> USE DEF LockInv, LockTypeOK
<1>1. mine[p] \in Objects
  BY DEF AddRef, Inside
<1>2. LockTypeOK'
  BY <1>1 DEF AddRef, PCs
<1>3. Inside'
  BY DEF AddRef, Inside
<1>4. RefCountExact'
  <2>0. PICK o \in Objects : o = mine[p]
    BY <1>1
  <2>1. UsersOf(o)' = UsersOf(o) \cup {p} /\ p \notin UsersOf(o)
    BY <2>0 DEF AddRef, UsersOf, Active
  <2>2. Cardinality(UsersOf(o)') = Cardinality(UsersOf(o)) + 1
    BY <2>1, UsersFinite, FS_AddElement
  <2>3. ref'[o] = Cardinality(UsersOf(o)')
    BY <2>0, <2>2, RefIsUsers DEF AddRef
  <2>4. ASSUME NEW x \in Objects, x # o PROVE ref'[x] = Cardinality(UsersOf(x)')
    <3>1. UsersOf(x)' = UsersOf(x)
      BY <2>0, <2>4 DEF AddRef, UsersOf, Active
    <3> QED
      BY <2>0, <2>4, <3>1, RefIsUsers DEF AddRef
  <2> QED
    BY <2>3, <2>4 DEF RefCountExact, UsersOf
<1>5. OneKey' /\ MapKey' /\ Backed'
  BY DEF AddRef, OneKey, MapKey, Backed
<1> QED
  BY <1>2, <1>3, <1>4, <1>5

LEMMA MuLockStep ==
  ASSUME LockInv, NEW p \in Procs, MuLock(p)
  PROVE  LockInv'
<1> USE DEF LockInv, LockTypeOK
<1>1. LockTypeOK'
  BY DEF MuLock, PCs
<1>2. Inside'
  BY DEF MuLock, Inside
<1>3. RefCountExact'
  BY SameUsers DEF MuLock, Active
<1>4. OneKey' /\ MapKey' /\ Backed'
  BY DEF MuLock, OneKey, MapKey, Backed
<1> QED
  BY <1>1, <1>2, <1>3, <1>4

LEMMA MuUnlockStep ==
  ASSUME LockInv, NEW p \in Procs, MuUnlock(p)
  PROVE  LockInv'
<1> USE DEF LockInv, LockTypeOK
<1>1. LockTypeOK'
  BY DEF MuUnlock, PCs
<1>2. Inside'
  BY DEF MuUnlock, Inside
<1>3. RefCountExact'
  BY SameUsers DEF MuUnlock, Active
<1>4. OneKey' /\ MapKey' /\ Backed'
  BY DEF MuUnlock, OneKey, MapKey, Backed
<1> QED
  BY <1>1, <1>2, <1>3, <1>4

LEMMA DropRefStep ==
  ASSUME LockInv, NEW p \in Procs, DropRef(p)
  PROVE  LockInv'
<1> USE DEF LockInv, LockTypeOK
<1>0. PICK o \in Objects : o = mine[p]
  BY DEF DropRef, Inside
<1>1. p \in UsersOf(o)
  BY <1>0 DEF DropRef, UsersOf, Active
<1>2. UsersOf(o)' = UsersOf(o) \ {p}
  BY KeyLockerConstants, <1>0 DEF KeyLockerConstants, DropRef, UsersOf, Active
<1>3. Cardinality(UsersOf(o)') = Cardinality(UsersOf(o)) - 1
  BY <1>1, <1>2, UsersFinite, FS_RemoveElement
<1>4. ref[o] = Cardinality(UsersOf(o)) /\ ref'[o] = Cardinality(UsersOf(o)')
  BY <1>0, <1>3, RefIsUsers DEF DropRef
<1>5. IsFiniteSet(UsersOf(o)') /\ Cardinality(UsersOf(o)') \in Nat
  <2>1. IsFiniteSet(UsersOf(o))
    BY UsersFinite
  <2>2. IsFiniteSet(UsersOf(o) \ {p})
    BY <2>1, FS_RemoveElement
  <2>3. Cardinality(UsersOf(o) \ {p}) \in Nat
    BY <2>2, FS_CardinalityType
  <2> QED
    BY <1>2, <2>2, <2>3
<1>6. LockTypeOK'
  <2>1. ref' \in [Objects -> Nat]
    BY <1>0, <1>4, <1>5 DEF DropRef
  <2> QED
    BY <2>1 DEF DropRef, PCs
<1>7. Inside'
  BY DEF DropRef, Inside
<1>8. RefCountExact'
  <2>1. ASSUME NEW x \in Objects, x # o PROVE ref'[x] = Cardinality(UsersOf(x)')
    <3>1. UsersOf(x)' = UsersOf(x)
      BY <1>0, <2>1, KeyLockerConstants DEF KeyLockerConstants, DropRef, UsersOf, Active
    <3> QED
      BY <1>0, <2>1, <3>1, RefIsUsers DEF DropRef
  <2> QED
    BY <2>1, <1>4 DEF RefCountExact, UsersOf
<1>9. OneKey' /\ MapKey'
  BY DEF DropRef, OneKey, MapKey
<1>10. Backed'
  <2>1. CASE ref[o] = 1
    BY <1>0, <2>1 DEF DropRef, Backed
  <2>2. CASE ref[o] # 1
    <3>1. UsersOf(o)' # {}
      BY <1>3, <1>4, <1>5, <2>2, UsersFinite, FS_EmptySet
    <3>2. PICK q \in Procs : q # p /\ mine[q] = o
      BY <3>1, <1>2 DEF UsersOf
    <3> QED
      BY <1>0, <3>2, <2>2 DEF DropRef, Backed
  <2> QED
    BY <2>1, <2>2
<1> QED
  BY <1>6, <1>7, <1>8, <1>9, <1>10

LEMMA DeleteStep ==
  ASSUME LockInv, NEW p \in Procs, Delete(p)
  PROVE  LockInv'
<1> USE DEF LockInv, LockTypeOK
<1>1. mine[p] \in Objects /\ key[p] \in Keys
  BY DEF Delete, Inside
<1>2. LockTypeOK'
  BY <1>1 DEF Delete, PCs
<1>3. Inside'
  BY DEF Delete, Inside
<1>4. RefCountExact'
  BY SameUsers DEF Delete, Active
<1>5. OneKey' /\ MapKey'
  BY KeyLockerConstants, <1>1 DEF KeyLockerConstants, Delete, OneKey, MapKey
<1>6. Backed'
  <2> SUFFICES ASSUME NEW k \in Keys, locks'[k] # None
               PROVE  \E q \in Procs : mine'[q] = locks'[k]
    BY DEF Backed
  <2>1. k # key[p] /\ locks'[k] = locks[k]
    BY <1>1 DEF Delete
  <2>2. PICK q \in Procs : mine[q] = locks[k]
    BY <2>1 DEF Backed
  <2>3. q # p
    BY <2>1, <2>2 DEF MapKey
  <2> QED
    BY <2>1, <2>2, <2>3 DEF Delete
<1> QED
  BY <1>2, <1>3, <1>4, <1>5, <1>6

-----------------------------------------------------------------------------

LEMMA InitLockInv == LockInit => LockInv
<1> SUFFICES ASSUME LockInit PROVE LockInv
  OBVIOUS
<1>1. RefCountExact
  <2>1. \A o \in Objects : {p \in Procs : Active(p) /\ mine[p] = o} = {}
    BY DEF LockInit, Active
  <2> QED
    BY <2>1, FS_EmptySet DEF LockInit, RefCountExact
<1> QED
  BY <1>1 DEF LockInit, LockInv, LockTypeOK, PCs, Inside, OneKey, MapKey, Backed

LEMMA NextLockInv == LockInv /\ [LockNext]_lockVars => LockInv'
<1> SUFFICES ASSUME LockInv, [LockNext]_lockVars PROVE LockInv'
  OBVIOUS
<1>1. CASE UNCHANGED lockVars
  BY <1>1 DEF lockVars, LockInv, LockTypeOK, Inside, RefCountExact, OneKey, MapKey, Backed, Active
<1> QED
  BY <1>1, LoadOrStoreStep, AddRefStep, MuLockStep, MuUnlockStep, DropRefStep, DeleteStep
  DEF LockNext, Step

\* LockInv is an invariant of any number of goroutines that lock any number of keys.
THEOREM LockInvariance == LockSpec => []LockInv
  BY InitLockInv, NextLockInv, PTL DEF LockSpec

\* Every variable has its type: the counter of an object never becomes negative,
\* although AddInt32(-1) is not guarded.
THEOREM LockTypeCorrect == LockSpec => []LockTypeOK
  BY LockInvariance, PTL DEF LockInv

\* The counter of every object is the number of goroutines between AddInt32(1) and
\* AddInt32(-1), whatever happens to the map in between.
THEOREM CountersExact == LockSpec => []RefCountExact
  BY LockInvariance, PTL DEF LockInv

\* A key nobody asks for has no entry: the goroutine that drops the last reference
\* deletes by key, and an entry that replaced its own has a goroutine of its own.
THEOREM EntriesDropped == LockSpec => []NoLeakedEntry
<1>1. LockInv => NoLeakedEntry
  <2> SUFFICES ASSUME LockInv, NEW k \in Keys, \A p \in Procs : key[p] # k, locks[k] # None
               PROVE  FALSE
    BY DEF NoLeakedEntry
  <2>1. PICK p \in Procs : mine[p] = locks[k]
    BY DEF LockInv, Backed
  <2> QED
    BY <2>1 DEF LockInv, MapKey
<1> QED
  BY <1>1, LockInvariance, PTL

-----------------------------------------------------------------------------
(* The credential controllers.                                              *)

\* The name that the pass under way, or else the BA, wants a flat pair for.
Kept == IF fpc = "idle" THEN Asked ELSE fname

\* Credentials under other names, in the store or in an informer's copy.
Strays(flat, copy) ==
  {n \in Names \ {Kept} : flat[n] \in Buckets \/ copy[n] \in Buckets}

\* The flattener will look again: the BA is queued, or an informer still has to tell.
Owed == fq \/ Told(seenSecret, flatSecret) \/ Told(seenMap, flatMap)

\* A pass that goes on has a name, and credentials before it writes any.
PassTypes ==
  /\ fpc \in {"source", "secret", "configmap", "rollback"} => fname \in Names
  /\ fpc \in {"secret", "configmap"} => fdata \in Buckets

\* What a pass does not want it has deleted, or will be told of: only the pass itself
\* writes credentials, under the name it has read.
StrayInv ==
  /\ Owed \/ Strays(flatSecret, seenSecret) = {}
  /\ fpc # "wipemaps" => Owed \/ Strays(flatMap, seenMap) = {}

\* Whatever makes the work of the pass outdated queues the BA again.
PairInv ==
  /\ fq \/ Kept = Asked
  /\ fpc \in {"secret", "configmap"} => fq \/ stale \/ fdata = secret[fname]
  /\ fpc = "configmap" => Owed \/ flatSecret[fname] = fdata
  /\ fpc = "idle" => \/ Owed \/ Asked = NoName
                     \/ /\ flatSecret[Asked] \in Buckets
                        /\ flatMap[Asked] = flatSecret[Asked]
                        /\ stale \/ flatSecret[Asked] = secret[Asked]

CredInv == TypeOK /\ PassTypes /\ StrayInv /\ PairInv

\* The kinds of contents differ, and the bounds are numbers.
LEMMA Contents ==
  /\ Absent \notin Buckets /\ Foreign \notin Buckets
  /\ Bad \notin Buckets /\ Foreign # Absent
  /\ 1 \in Buckets /\ 0 \in 0..MaxChanges /\ 0 \in 0..MaxFaults
  /\ (CHOOSE n \in Names : TRUE) \in Names /\ NoName \notin Names
  BY BucketCredentialsConstants DEF BucketCredentialsConstants, Absent, Foreign, Bad, Buckets

\* A counted fault or change stays within its bound.
LEMMA Counted ==
  ASSUME TypeOK
  PROVE  /\ Fault => faults' \in 0..MaxFaults
         /\ Change => changes' \in 0..MaxChanges
  BY BucketCredentialsConstants DEF BucketCredentialsConstants, TypeOK, Fault, Change

-----------------------------------------------------------------------------
(* Types.                                                                   *)

\* Deleting flat objects leaves contents of the same kinds.
LEMMA WithoutType ==
  ASSUME NEW f \in FlatObjects, NEW S
  PROVE  Without(f, S) \in FlatObjects
  BY DEF Without, FlatObjects

\* So does writing credentials.
LEMMA WriteType ==
  ASSUME NEW f \in FlatObjects, NEW n \in Names, NEW b \in Buckets
  PROVE  [f EXCEPT ![n] = b] \in FlatObjects
  BY DEF FlatObjects

LEMMA CredTypeInit ==
  ASSUME Init
  PROVE  TypeOK
  BY Contents DEF Init, TypeOK, FlatObjects

LEMMA CredTypeFlatten ==
  ASSUME CredInv, Flatten
  PROVE  TypeOK'
<1> USE DEF CredInv, TypeOK, access, store, flats, seen, resync, Done, Retry, Continue
<1>1. CASE WipeSecrets
  BY <1>1, WithoutType DEF WipeSecrets, Asked
<1>2. CASE WipeConfigMaps
  BY <1>2, WithoutType DEF WipeConfigMaps
<1>3. CASE ReadSource
  BY <1>3 DEF ReadSource, PassTypes
<1>4. CASE EnsureFlatSecret
  <2>1. fdata \in Buckets /\ fname \in Names
    BY <1>4 DEF EnsureFlatSecret, PassTypes
  <2>2. flatSecret' = flatSecret \/ flatSecret' = [flatSecret EXCEPT ![fname] = fdata]
    BY <1>4 DEF EnsureFlatSecret
  <2>3. flatSecret' \in FlatObjects
    BY <2>1, <2>2, WriteType
  <2>4. /\ fpc' \in {"idle", "configmap"} /\ fq' \in BOOLEAN
        /\ fname' \in Names \cup {NoName} /\ fdata' \in {Absent} \cup Buckets
    BY <1>4 DEF EnsureFlatSecret
  <2> QED
    BY <1>4, <2>3, <2>4 DEF EnsureFlatSecret
<1>5. CASE EnsureFlatConfigMap
  <2>1. fdata \in Buckets /\ fname \in Names
    BY <1>5 DEF EnsureFlatConfigMap, PassTypes
  <2>2. flatMap' = flatMap \/ flatMap' = [flatMap EXCEPT ![fname] = fdata]
    BY <1>5 DEF EnsureFlatConfigMap
  <2>3. flatMap' \in FlatObjects
    BY <2>1, <2>2, WriteType
  <2> QED
    BY <1>5, <2>3 DEF EnsureFlatConfigMap
<1>6. CASE RollbackFlatSecret
  BY <1>6, WithoutType DEF RollbackFlatSecret, PassTypes
<1> QED
  BY <1>1, <1>2, <1>3, <1>4, <1>5, <1>6 DEF Flatten

LEMMA CredTypeResync ==
  ASSUME CredInv, Resync
  PROVE  TypeOK'
<1> USE DEF CredInv, TypeOK, access, store, flats, seen, flattener, resync, Stop
<1>1. CASE CheckSecret
  BY <1>1 DEF CheckSecret
<1>2. CASE PokeFlatSecrets
  BY <1>2, WithoutType DEF PokeFlatSecrets
<1>3. CASE PokeFlatMaps
  BY <1>3, WithoutType DEF PokeFlatMaps
<1>4. CASE PokeSecret
  <2>1. secret' = [secret EXCEPT ![rname] = Absent] /\ UNCHANGED cached
    BY <1>4 DEF PokeSecret
  <2>2. secret' \in [Names -> {Absent, Bad} \cup Buckets]
    BY <2>1
  <2> QED
    BY <1>4, <2>2 DEF PokeSecret
<1>5. CASE ClearGrant
  BY <1>5 DEF ClearGrant, BAEvent
<1> QED
  BY <1>1, <1>2, <1>3, <1>4, <1>5 DEF Resync

LEMMA CredTypeOthers ==
  ASSUME CredInv,
         Sidecar \/ ClaimReady \/ Users \/ SyncSecrets \/ SyncConfigMaps
  PROVE  TypeOK'
<1> USE DEF CredInv, TypeOK, access, store, flats, seen, flattener, resync,
        BAEvent
<1>1. CASE CreateSecret
  BY <1>1 DEF CreateSecret
<1>2. CASE ReportGrant
  BY <1>2 DEF ReportGrant
<1>3. CASE ClaimReady
  BY <1>3 DEF ClaimReady
<1>4. CASE RecreateClaim
  <2>1. bucket' \in Buckets
    BY <1>4, BucketCredentialsConstants DEF RecreateClaim, Buckets, BucketCredentialsConstants
  <2>2. /\ changes' \in 0..MaxChanges /\ ready' \in BOOLEAN /\ rq' \in BOOLEAN
        /\ UNCHANGED <<wanted, name, granted, secret, cached, flatSecret, flatMap, seenSecret,
                       seenMap, fq, fpc, fname, fdata, stale, rpc, rname, rsec, misled, faults>>
    BY <1>4, Counted DEF RecreateClaim
  <2> QED
    BY <2>1, <2>2
<1>5. CASE Annotate
  BY <1>5, Counted DEF Annotate
<1>6. ASSUME NEW n \in Names, Rename(n) PROVE TypeOK'
  BY <1>6, Counted DEF Rename
<1>7. ASSUME NEW n \in Names, CreateForeign(n) PROVE TypeOK'
  BY <1>7, Counted DEF CreateForeign, FlatObjects
<1>8. ASSUME NEW n \in Names, DeleteForeign(n) PROVE TypeOK'
  BY <1>8 DEF DeleteForeign, FlatObjects
<1>9. ASSUME NEW n \in Names, BreakSecret(n) PROVE TypeOK'
  BY <1>9, Counted DEF BreakSecret
<1>10. CASE SyncSecrets
  BY <1>10 DEF SyncSecrets
<1>11. CASE SyncConfigMaps
  BY <1>11 DEF SyncConfigMaps
<1> QED
  BY <1>1, <1>2, <1>3, <1>4, <1>5, <1>6, <1>7, <1>8, <1>9, <1>10, <1>11 DEF Sidecar, Users

LEMMA CredTypeFaults ==
  ASSUME CredInv, FlattenFails \/ ResyncFails \/ Crash
  PROVE  TypeOK'
<1> USE DEF CredInv, TypeOK, access, store, flats, seen, flattener, resync,
        BAEvent, Done, Retry, Continue, Stop
<1>1. CASE FlattenFails
  <2>1. /\ fpc' \in {"idle", "rollback"} /\ fq' \in BOOLEAN
        /\ fname' \in Names \cup {NoName} /\ fdata' \in {Absent} \cup Buckets
    BY <1>1 DEF FlattenFails
  <2>2. flatSecret' \in FlatObjects /\ flatMap' \in FlatObjects
    BY <1>1, WithoutType DEF FlattenFails
  <2> QED
    BY <1>1, <2>1, <2>2, Counted DEF FlattenFails
<1>2. CASE ResyncFails
  <2>1. flatSecret' \in FlatObjects /\ flatMap' \in FlatObjects
    BY <1>2, WithoutType DEF ResyncFails
  <2> QED
    BY <1>2, <2>1, Counted DEF ResyncFails
<1>3. CASE Crash
  BY <1>3, Counted DEF Crash
<1> QED
  BY <1>1, <1>2, <1>3

-----------------------------------------------------------------------------
(* The flat pair.                                                           *)

\* g is f after deletions of objects that the informer's copy shows as owned, and after
\* what others did to their own objects.
OnlyDeletes(copy, f, g) ==
  \A n \in Names : \/ g[n] = f[n]
                   \/ g[n] \notin Buckets /\ (f[n] \in Buckets => copy[n] \in Buckets)

\* An object that was deleted is still in the copy: its informer has to tell.
LEMMA DeletionTold ==
  ASSUME NEW copy, NEW f, NEW g, OnlyDeletes(copy, f, g)
  PROVE  /\ Told(copy, f) => Told(copy, g)
         /\ \A n \in Names : f[n] \in Buckets /\ g[n] # f[n] => Told(copy, g)
         /\ Strays(g, copy) \subseteq Strays(f, copy)
  BY DEF OnlyDeletes, Told, Strays

\* A round of DeleteOwnedFlatPair, whole or cut off, and the rollback delete what the
\* copy shows as owned.
LEMMA RoundDeletes ==
  ASSUME NEW copy, NEW f, NEW S, \A n \in S : copy[n] \in Buckets
  PROVE  OnlyDeletes(copy, f, Without(f, S))
  BY Contents DEF OnlyDeletes, Without

\* A step of anybody but the flattener writes no credentials, deletes only what the copies
\* show, and queues the BA when it changes the name asked for or the Secret of that name.
LEMMA Outsider ==
  ASSUME CredInv, TypeOK', UNCHANGED flattener, UNCHANGED seen, fq => fq',
         OnlyDeletes(seenSecret, flatSecret, flatSecret'),
         OnlyDeletes(seenMap, flatMap, flatMap'),
         fq' \/ (UNCHANGED <<wanted, name>> /\ secret'[name] = secret[name])
  PROVE  CredInv'
<1> USE DEF flattener, seen
<1>1. PassTypes'
  BY DEF CredInv, PassTypes
<1>2. Owed => Owed'
  BY DeletionTold DEF Owed
<1>3. fq' \/ (Asked' = Asked /\ Kept' = Kept)
  BY DEF Asked, Kept
<1>4. StrayInv'
  <2>1. fq' \/ /\ Strays(flatSecret, seenSecret)' \subseteq Strays(flatSecret, seenSecret)
               /\ Strays(flatMap, seenMap)' \subseteq Strays(flatMap, seenMap)
    BY <1>3, DeletionTold DEF Strays
  <2> QED
    BY <1>2, <2>1 DEF CredInv, StrayInv, Owed
<1>5. ASSUME ~fq'
      PROVE  /\ Kept' = Asked'
             /\ fpc \in {"secret", "configmap"} => stale \/ fdata = secret'[fname]
  <2>1. Kept = Asked
    BY <1>5 DEF CredInv, PairInv
  <2>2. CASE fpc \in {"secret", "configmap"}
    <3>1. fname = name
      BY <2>1, <2>2, Contents DEF Kept, Asked, CredInv, PassTypes
    <3> QED
      BY <1>3, <1>5, <2>1, <2>2, <3>1 DEF CredInv, PairInv
  <2> QED
    BY <1>3, <1>5, <2>1, <2>2
<1>6. ASSUME ~Owed'
      PROVE  \A n \in Names : /\ flatSecret[n] \in Buckets => flatSecret'[n] = flatSecret[n]
                              /\ flatMap[n] \in Buckets => flatMap'[n] = flatMap[n]
  BY <1>6, DeletionTold DEF Owed
<1>7. ASSUME fpc = "configmap", ~Owed'
      PROVE  flatSecret'[fname] = fdata
  BY <1>2, <1>6, <1>7 DEF CredInv, PairInv, PassTypes
<1>8. ASSUME fpc = "idle", ~Owed', Asked # NoName
      PROVE  /\ flatSecret'[Asked] \in Buckets /\ flatMap'[Asked] = flatSecret'[Asked]
             /\ stale \/ flatSecret'[Asked] = secret'[Asked]
  <2>1. Asked = name /\ name \in Names /\ secret'[name] = secret[name]
    BY <1>8 DEF Asked, CredInv, TypeOK, Owed
  <2>2. /\ flatSecret[Asked] \in Buckets /\ flatMap[Asked] = flatSecret[Asked]
        /\ stale \/ flatSecret[Asked] = secret[Asked]
    BY <1>2, <1>8 DEF CredInv, PairInv
  <2> QED
    BY <1>6, <1>8, <2>1, <2>2
<1>9. PairInv'
  BY <1>3, <1>5, <1>7, <1>8 DEF PairInv, Owed
<1> QED
  BY <1>1, <1>4, <1>9 DEF CredInv

\* An informer catches up: what it has to tell it tells.
LEMMA SyncStep ==
  ASSUME CredInv, TypeOK', SyncSecrets \/ SyncConfigMaps
  PROVE  CredInv'
<1>1. /\ UNCHANGED <<wanted, name, secret, flatSecret, flatMap>> /\ UNCHANGED flattener
      /\ \/ seenSecret' = flatSecret /\ UNCHANGED seenMap
            /\ fq' = (fq \/ Told(seenSecret, flatSecret))
         \/ seenMap' = flatMap /\ UNCHANGED seenSecret
            /\ fq' = (fq \/ Told(seenMap, flatMap))
  BY DEF SyncSecrets, SyncConfigMaps, access, store, flats
<1>2. Owed => Owed'
  BY <1>1 DEF Owed, Told
<1>3. Asked' = Asked /\ Kept' = Kept
  BY <1>1 DEF Asked, Kept, flattener
<1>4. /\ Strays(flatSecret, seenSecret)' \subseteq Strays(flatSecret, seenSecret)
      /\ Strays(flatMap, seenMap)' \subseteq Strays(flatMap, seenMap)
  BY <1>1, <1>3 DEF Strays
<1>5. fq => fq'
  BY <1>1
<1>6. PassTypes' /\ StrayInv'
  BY <1>1, <1>2, <1>4 DEF CredInv, PassTypes, StrayInv, flattener
<1>7. PairInv'
  BY <1>1, <1>2, <1>3, <1>5 DEF CredInv, PairInv, flattener
<1> QED
  BY <1>6, <1>7 DEF CredInv

LEMMA OutsideStep ==
  ASSUME CredInv, TypeOK',
         Resync \/ Sidecar \/ ClaimReady \/ Users \/ ResyncFails
  PROVE  CredInv'
<1> USE DEF access, store, flats, BAEvent
<1>1. \A copy, f : OnlyDeletes(copy, f, f)
  BY DEF OnlyDeletes
<1>2. CASE CheckSecret \/ ClearGrant \/ ReportGrant \/ ClaimReady
             \/ RecreateClaim \/ Annotate \/ CreateSecret
  BY <1>1, <1>2, Outsider DEF CheckSecret, ClearGrant, ReportGrant, ClaimReady,
       RecreateClaim, Annotate, CreateSecret
<1>3. ASSUME NEW n \in Names, Rename(n) PROVE CredInv'
  BY <1>1, <1>3, Outsider DEF Rename
<1>4. ASSUME PokeFlatSecrets \/ PokeFlatMaps \/ ResyncFails PROVE CredInv'
  <2>1. /\ UNCHANGED flattener /\ UNCHANGED seen /\ UNCHANGED <<fq, wanted, name, secret>>
    BY <1>4 DEF PokeFlatSecrets, PokeFlatMaps, ResyncFails
  <2>2. /\ \/ flatSecret' = flatSecret
           \/ \E S \in SUBSET Owned(seenSecret, NoName) : flatSecret' = Without(flatSecret, S)
        /\ \/ flatMap' = flatMap
           \/ \E S \in SUBSET Owned(seenMap, NoName) : flatMap' = Without(flatMap, S)
    BY <1>4 DEF PokeFlatSecrets, PokeFlatMaps, ResyncFails
  <2>3. /\ OnlyDeletes(seenSecret, flatSecret, flatSecret')
        /\ OnlyDeletes(seenMap, flatMap, flatMap')
    BY <1>1, <2>2, RoundDeletes DEF Owned
  <2> QED
    BY <2>1, <2>3, Outsider
<1>5. CASE PokeSecret
  <2>1. /\ UNCHANGED flattener /\ UNCHANGED seen
        /\ UNCHANGED <<wanted, name, flatSecret, flatMap>>
    BY <1>5 DEF PokeSecret
  <2>2. fq' = TRUE \/ (UNCHANGED fq /\ secret'[name] = secret[name])
    BY <1>5 DEF PokeSecret, CredInv, TypeOK
  <2> QED
    BY <1>1, <2>1, <2>2, Outsider
<1>6. ASSUME NEW n \in Names, BreakSecret(n) PROVE CredInv'
  <2>1. /\ UNCHANGED flattener /\ UNCHANGED seen
        /\ UNCHANGED <<wanted, name, flatSecret, flatMap>>
    BY <1>6 DEF BreakSecret
  <2>2. fq' = TRUE \/ (UNCHANGED fq /\ secret'[name] = secret[name])
    BY <1>6 DEF BreakSecret, CredInv, TypeOK
  <2> QED
    BY <1>1, <2>1, <2>2, Outsider
<1>7. ASSUME NEW n \in Names, CreateForeign(n) \/ DeleteForeign(n) PROVE CredInv'
  <2>1. UNCHANGED flattener /\ UNCHANGED seen /\ UNCHANGED <<fq, wanted, name, secret>>
    BY <1>7 DEF CreateForeign, DeleteForeign
  <2>2. /\ OnlyDeletes(seenSecret, flatSecret, flatSecret')
        /\ OnlyDeletes(seenMap, flatMap, flatMap')
    BY <1>7, Contents DEF CreateForeign, DeleteForeign, CredInv, TypeOK, FlatObjects, OnlyDeletes
  <2> QED
    BY <2>1, <2>2, Outsider
<1> QED
  BY <1>2, <1>3, <1>4, <1>5, <1>6, <1>7 DEF Resync, Sidecar, Users

LEMMA WipeSecretsStep ==
  ASSUME CredInv, TypeOK', WipeSecrets
  PROVE  CredInv'
<1>1. /\ fname' = Asked' /\ fpc' = "wipemaps" /\ UNCHANGED seenSecret
      /\ flatSecret' = Without(flatSecret, Owned(seenSecret, fname'))
  BY DEF WipeSecrets, Asked, access, seen
<1>2. Owed' \/ Strays(flatSecret, seenSecret)' = {}
  BY <1>1, Contents DEF Owed, Told, Strays, Kept, Without, Owned
<1>3. Kept' = Asked'
  BY <1>1 DEF Kept
<1> QED
  BY <1>1, <1>2, <1>3 DEF CredInv, PassTypes, StrayInv, PairInv

LEMMA WipeConfigMapsStep ==
  ASSUME CredInv, TypeOK', WipeConfigMaps
  PROVE  CredInv'
<1>1. /\ UNCHANGED <<wanted, name, flatSecret, seenSecret, seenMap, fq>> /\ fpc = "wipemaps"
      /\ flatMap' = Without(flatMap, Owned(seenMap, fname))
      /\ \/ fname = NoName /\ fpc' = "idle"
         \/ fname # NoName /\ fpc' = "source" /\ UNCHANGED fname
  BY DEF WipeConfigMaps, access, seen, Done, Continue
<1>2. Owed => Owed'
  <2>1. OnlyDeletes(seenMap, flatMap, flatMap')
    BY <1>1, RoundDeletes DEF Owned
  <2> QED
    BY <1>1, <2>1, DeletionTold DEF Owed
<1>3. fq \/ (Kept = Asked /\ Kept' = Asked' /\ Asked' = Asked)
  BY <1>1 DEF CredInv, PairInv, Kept, Asked
<1>4. Owed' \/ Strays(flatSecret, seenSecret)' = {}
  BY <1>1, <1>2, <1>3 DEF CredInv, StrayInv, Strays, Owed
<1>5. fq \/ fname = Kept'
  BY <1>1, <1>3 DEF Kept
<1>6. Owed' \/ Strays(flatMap, seenMap)' = {}
  BY <1>1, <1>5, Contents DEF Owed, Told, Strays, Without, Owned
<1>7. fname \in Names \cup {NoName}
  BY DEF CredInv, TypeOK
<1>8. fpc' = "idle" => fq \/ Asked' = NoName
  BY <1>1, <1>3 DEF Kept
<1> QED
  BY <1>1, <1>3, <1>4, <1>6, <1>7, <1>8 DEF CredInv, PassTypes, StrayInv, PairInv, Owed

LEMMA ReadSourceStep ==
  ASSUME CredInv, TypeOK', ReadSource, cached[fname] \in Buckets
  PROVE  CredInv'
<1>1. /\ UNCHANGED <<wanted, name, secret, flatSecret, flatMap, seenSecret, seenMap, fname, fq>>
      /\ fpc = "source" /\ fpc' = "secret" /\ fdata' = cached[fname]
      /\ stale' \/ cached[fname] = secret[fname]
  BY DEF ReadSource, access, store, flats, seen
<1>2. /\ Owed' = Owed /\ Kept' = Kept /\ Asked' = Asked
      /\ Strays(flatSecret, seenSecret)' = Strays(flatSecret, seenSecret)
      /\ Strays(flatMap, seenMap)' = Strays(flatMap, seenMap)
  BY <1>1 DEF Owed, Told, Kept, Asked, Strays
<1> QED
  BY <1>1, <1>2 DEF CredInv, PassTypes, StrayInv, PairInv

\* CreateOrUpdate that does not fail: the object was in the copy with these credentials,
\* or it was written and the informer has to tell.
LEMMA EnsureFlatSecretStep ==
  ASSUME CredInv, TypeOK', EnsureFlatSecret, fpc' = "configmap"
  PROVE  CredInv'
<1>1. /\ UNCHANGED <<wanted, name, secret, flatMap, seenSecret, seenMap, fname, fdata, fq, stale>>
      /\ fpc = "secret" /\ fname \in Names /\ fdata \in Buckets /\ DOMAIN flatSecret = Names
      /\ \/ seenSecret[fname] = fdata /\ UNCHANGED flatSecret
         \/ seenSecret[fname] # fdata /\ flatSecret' = [flatSecret EXCEPT ![fname] = fdata]
  BY DEF EnsureFlatSecret, access, store, seen, CredInv, PassTypes, TypeOK, FlatObjects,
         Continue, Retry, Done
<1>2. Kept' = Kept /\ Asked' = Asked /\ Kept = fname
  BY <1>1 DEF Kept, Asked
<1>3. Owed' \/ flatSecret'[fname] = fdata
  BY <1>1 DEF Owed, Told
<1>4. Owed' \/ (~Owed /\ UNCHANGED flatSecret)
  BY <1>1 DEF Owed, Told
<1>5. StrayInv'
  BY <1>1, <1>2, <1>4 DEF CredInv, StrayInv, Strays
<1>6. PairInv'
  BY <1>1, <1>2, <1>3 DEF CredInv, PairInv
<1> QED
  BY <1>1, <1>5, <1>6 DEF CredInv, PassTypes

LEMMA EnsureFlatConfigMapStep ==
  ASSUME CredInv, TypeOK', EnsureFlatConfigMap, fpc' = "idle"
  PROVE  CredInv'
<1>1. /\ UNCHANGED <<wanted, name, secret, flatSecret, seenSecret, seenMap, fq, stale>>
      /\ fpc = "configmap" /\ fname \in Names /\ fdata \in Buckets /\ DOMAIN flatMap = Names
      /\ \/ seenMap[fname] = fdata /\ UNCHANGED flatMap
         \/ seenMap[fname] # fdata /\ flatMap' = [flatMap EXCEPT ![fname] = fdata]
  BY DEF EnsureFlatConfigMap, access, store, seen, CredInv, PassTypes, TypeOK, FlatObjects,
         Continue, Done
<1>2. Kept' = Asked' /\ Asked' = Asked /\ Kept = fname /\ (fq \/ fname = Asked)
  BY <1>1 DEF Kept, Asked, CredInv, PairInv
<1>3. Owed' \/ (~Owed /\ UNCHANGED flatMap /\ flatMap[fname] = fdata)
  BY <1>1 DEF Owed, Told
<1>4. Owed' \/ Kept' = Kept
  BY <1>1, <1>2 DEF Owed
<1>5. StrayInv'
  BY <1>1, <1>3, <1>4 DEF CredInv, StrayInv, Strays
<1>6. Owed' \/ /\ flatSecret'[Asked'] \in Buckets /\ flatMap'[Asked'] = flatSecret'[Asked']
               /\ stale' \/ flatSecret'[Asked'] = secret'[Asked']
  BY <1>1, <1>2, <1>3 DEF CredInv, PairInv, Owed
<1>7. PairInv'
  BY <1>2, <1>6 DEF PairInv
<1> QED
  BY <1>5, <1>7 DEF CredInv, PassTypes

\* A pass that ends with the BA queued again has nothing to keep.
LEMMA Requeued ==
  ASSUME CredInv, TypeOK', fpc' = "idle", fq' = TRUE
  PROVE  CredInv'
  BY DEF CredInv, PassTypes, StrayInv, PairInv, Owed, Kept

\* The ConfigMap could not be written.
LEMMA ToRollback ==
  ASSUME CredInv, TypeOK', fpc = "configmap", Continue("rollback"),
         UNCHANGED access, UNCHANGED store, UNCHANGED flats, UNCHANGED seen, UNCHANGED stale
  PROVE  CredInv'
<1>1. /\ fpc' = "rollback"
      /\ UNCHANGED <<wanted, name, fname, fq, flatSecret, flatMap, seenSecret, seenMap>>
  BY DEF Continue, access, flats, seen
<1>2. /\ Owed' = Owed /\ Kept' = Kept /\ Asked' = Asked
      /\ Strays(flatSecret, seenSecret)' = Strays(flatSecret, seenSecret)
      /\ Strays(flatMap, seenMap)' = Strays(flatMap, seenMap)
  BY <1>1 DEF Owed, Told, Kept, Asked, Strays
<1> QED
  BY <1>1, <1>2 DEF CredInv, PassTypes, StrayInv, PairInv

LEMMA CredStep ==
  ASSUME CredInv, [Next]_vars
  PROVE  CredInv'
<1>1. CASE UNCHANGED vars
  BY <1>1 DEF vars, access, store, flats, seen, flattener, resync, CredInv, TypeOK,
       PassTypes, StrayInv, PairInv, Strays, Asked, Kept, Owed, Told
<1>2. CASE Next
  <2>1. TypeOK'
    BY <1>2, CredTypeFlatten, CredTypeResync, CredTypeOthers, CredTypeFaults DEF Next
  <2>2. CASE RollbackFlatSecret \/ Crash
    BY <2>1, <2>2, Requeued DEF RollbackFlatSecret, Crash, BAEvent, Retry, Done
  <2>3. CASE ReadSource
    BY <2>1, <2>3, Requeued, ReadSourceStep DEF ReadSource, Retry, Done
  <2>4. CASE EnsureFlatSecret
    BY <2>1, <2>4, Requeued, EnsureFlatSecretStep DEF EnsureFlatSecret, Retry, Done, Continue
  <2>5. CASE EnsureFlatConfigMap
    <3>1. CASE fpc' = "idle"
      BY <2>1, <2>5, <3>1, EnsureFlatConfigMapStep
    <3>2. CASE fpc' # "idle"
      BY <2>1, <2>5, <3>2, ToRollback DEF EnsureFlatConfigMap, Done, flats
    <3> QED
      BY <3>1, <3>2
  <2>6. CASE FlattenFails
    BY <2>1, <2>6, Requeued, ToRollback DEF FlattenFails, Retry, Done
  <2> QED
    BY <1>2, <2>1, <2>2, <2>3, <2>4, <2>5, <2>6, OutsideStep, SyncStep, WipeSecretsStep,
       WipeConfigMapsStep
    DEF Next, Flatten
<1> QED
  BY <1>1, <1>2

-----------------------------------------------------------------------------

\* CredInv is an invariant of the two controllers, the sidecar and the users.
THEOREM CredInvariance ==
  Spec => []CredInv
<1>1. Init => CredInv
  BY CredTypeInit DEF Init, CredInv, PassTypes, StrayInv, PairInv, Owed, Kept
<1>2. CredInv /\ [Next]_vars => CredInv'
  BY CredStep
<1> QED
  BY <1>1, <1>2, PTL DEF Spec

\* Every variable of BucketCredentials keeps its type: only credentials that could be
\* parsed reach a flat object.
THEOREM CredTypeCorrect ==
  Spec => []TypeOK
<1>1. CredInv => TypeOK
  BY DEF CredInv
<1> QED
  BY <1>1, CredInvariance, PTL

\* For any number of names, buckets, changes and faults: when the flattener has nothing
\* left to do, nor to be told, there is one flat pair, complete and of the wanted name,
\* or none.
THEOREM SettledPair ==
  Spec => []FlatSettled
<1>1. ASSUME CredInv PROVE FlatSettled
  <2> SUFFICES ASSUME fpc = "idle", ~fq, seenSecret = flatSecret, seenMap = flatMap,
                      NEW n \in Names
               PROVE  IF wanted /\ n = name
                      THEN /\ flatSecret[n] \in Buckets /\ flatMap[n] = flatSecret[n]
                           /\ ~stale => flatSecret[n] = secret[n]
                      ELSE flatSecret[n] \notin Buckets /\ flatMap[n] \notin Buckets
    BY DEF FlatSettled
  <2>1. ~Owed
    BY DEF Owed, Told
  <2>2. Kept = Asked /\ Strays(flatSecret, seenSecret) = {} /\ Strays(flatMap, seenMap) = {}
    BY <1>1, <2>1 DEF CredInv, StrayInv, Kept
  <2>3. CASE wanted /\ n = name
    <3>1. Asked = n /\ n # NoName
      BY <2>3, Contents DEF Asked
    <3> QED
      BY <1>1, <2>1, <2>3, <3>1 DEF CredInv, PairInv
  <2>4. CASE ~(wanted /\ n = name)
    <3>1. n # Kept
      BY <2>2, <2>4, Contents DEF Asked
    <3> QED
      BY <2>2, <2>4, <3>1 DEF Strays
  <2> QED
    BY <2>3, <2>4
<1> QED
  BY <1>1, CredInvariance, PTL

\* An object of somebody else is never overwritten, whatever a controller saw when it
\* decided to write, and not deleted by one that sees it.
THEOREM ForeignUntouched ==
  Spec => ForeignKept
<1>1. ASSUME CredInv, [Next]_vars, NEW n \in Names
      PROVE  Respected(flatSecret, seenSecret, n) /\ Respected(flatMap, seenMap, n)
  <2> USE DEF flats, CredInv, TypeOK, FlatObjects
  <2>1. CASE UNCHANGED flats
    BY <2>1 DEF Respected
  <2>2. CASE WipeSecrets
    BY <2>2 DEF WipeSecrets, Without, Owned, Respected
  <2>3. CASE WipeConfigMaps
    BY <2>3 DEF WipeConfigMaps, Without, Owned, Respected
  <2>4. CASE EnsureFlatSecret
    <3>1. UNCHANGED flatMap /\ (UNCHANGED flatSecret \/
             /\ flatSecret[fname] # Foreign /\ flatSecret' = [flatSecret EXCEPT ![fname] = fdata])
      BY <2>4 DEF EnsureFlatSecret, Accepted
    <3> QED
      BY <1>1, <3>1 DEF Respected
  <2>5. CASE EnsureFlatConfigMap
    <3>1. UNCHANGED flatSecret /\ (UNCHANGED flatMap \/
             /\ flatMap[fname] # Foreign /\ flatMap' = [flatMap EXCEPT ![fname] = fdata])
      BY <2>5 DEF EnsureFlatConfigMap, Accepted
    <3> QED
      BY <1>1, <3>1 DEF Respected
  <2>6. CASE RollbackFlatSecret
    BY <2>6 DEF RollbackFlatSecret, Without, Respected
  <2>7. CASE FlattenFails
    BY <2>7 DEF FlattenFails, Without, Owned, Respected
  <2>8. CASE PokeFlatSecrets
    BY <2>8 DEF PokeFlatSecrets, Without, Owned, Respected
  <2>9. CASE PokeFlatMaps
    BY <2>9 DEF PokeFlatMaps, Without, Owned, Respected
  <2>10. CASE ResyncFails
    BY <2>10 DEF ResyncFails, Without, Owned, Respected
  <2>11. ASSUME NEW m \in Names, CreateForeign(m)
         PROVE  Respected(flatSecret, seenSecret, n) /\ Respected(flatMap, seenMap, n)
    BY <1>1, <2>11, Contents DEF CreateForeign, Respected
  <2>12. ASSUME NEW m \in Names, DeleteForeign(m)
         PROVE  Respected(flatSecret, seenSecret, n) /\ Respected(flatMap, seenMap, n)
    <3>1. CASE m = n
      BY <1>1, <2>12, <3>1 DEF DeleteForeign, Respected
    <3>2. CASE m # n
      <4>1. flatSecret'[n] = flatSecret[n] /\ flatMap'[n] = flatMap[n]
        BY <1>1, <2>12, <3>2 DEF DeleteForeign
      <4> QED
        BY <4>1 DEF Respected
    <3> QED
      BY <3>1, <3>2
  <2> QED
    BY <1>1, <2>1, <2>2, <2>3, <2>4, <2>5, <2>6, <2>7, <2>8, <2>9, <2>10, <2>11, <2>12
    DEF Next, Flatten, Resync, Sidecar, Users, ReadSource, CheckSecret, PokeSecret,
        ClearGrant, CreateSecret, ReportGrant, RecreateClaim, ClaimReady, Annotate, Rename,
        BreakSecret, SyncSecrets, SyncConfigMaps, Crash, vars
<1>2. CredInv /\ [Next]_vars =>
        [\A n \in Names : /\ Respected(flatSecret, seenSecret, n)
                          /\ Respected(flatMap, seenMap, n)]_vars
  BY <1>1
<1> QED
  BY <1>2, CredInvariance, PTL DEF Spec, ForeignKept
=============================================================================
