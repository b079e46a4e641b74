----------------------------- MODULE KeyLocker -----------------------------
(***************************************************************************)
(* KeyLocker (extensions-controller/internal/controller/key_locker.go): a   *)
(* map from key to reference-counted mutex, created on first use and        *)
(* deleted by the last user.  Every reconciler enters Reconcile through     *)
(* Lock and leaves through the closure Lock returns.  Each atomic operation *)
(* on the sync.Map, the counter or the mutex is one action, because a       *)
(* goroutine may be descheduled between any two of them.                    *)
(***************************************************************************)
EXTENDS Naturals, FiniteSets

CONSTANTS Procs,    \* reconcile goroutines
          Keys,     \* combined keys, e.g. kind:namespace/name
          Objects,  \* identities of refLock objects
          None      \* "no object", "no key", "no goroutine"

ASSUME KeyLockerConstants ==
  /\ IsFiniteSet(Procs) /\ None \notin Procs
  /\ None \notin Keys /\ None \notin Objects

VARIABLES locks,    \* the sync.Map: key -> object or None
          ref,      \* refLock.ref, per object
          owner,    \* the goroutine that holds refLock.mu, per object
          pc,       \* where each goroutine is
          mine,     \* the object each goroutine loaded
          key       \* the key each goroutine asked for

lockVars == <<locks, ref, owner, pc, mine, key>>

PCs == {"idle", "loaded", "counted", "held", "unlocked", "delete"}

LockTypeOK ==
  /\ locks \in [Keys -> Objects \cup {None}]
  /\ ref \in [Objects -> Nat]
  /\ owner \in [Objects -> Procs \cup {None}]
  /\ pc \in [Procs -> PCs]
  /\ mine \in [Procs -> Objects \cup {None}]
  /\ key \in [Procs -> Keys \cup {None}]

LockInit ==
  /\ locks = [k \in Keys |-> None]
  /\ ref = [o \in Objects |-> 0]
  /\ owner = [o \in Objects |-> None]
  /\ pc = [p \in Procs |-> "idle"]
  /\ mine = [p \in Procs |-> None]
  /\ key = [p \in Procs |-> None]

\* An object no map entry and no goroutine refers to: what &refLock{} returns.
\* A dropped object is garbage, so its identity may be used again.
Fresh(o) ==
  /\ \A k \in Keys : locks[k] # o
  /\ \A p \in Procs : mine[p] # o

\* LoadOrStore: take the object of the key, or install a new one.
LoadOrStore(p, k) ==
  /\ pc[p] = "idle"
  /\ \E o \in Objects :
       /\ IF locks[k] = None THEN Fresh(o) ELSE o = locks[k]
       /\ locks' = [locks EXCEPT ![k] = o]
       /\ mine' = [mine EXCEPT ![p] = o]
  /\ pc' = [pc EXCEPT ![p] = "loaded"]
  /\ key' = [key EXCEPT ![p] = k]
  /\ UNCHANGED <<ref, owner>>

\* Mutant: the counter is set instead of incremented.
MutantStoreRef(p) ==
  /\ pc[p] = "loaded"
  /\ ref' = [ref EXCEPT ![mine[p]] = 1]
  /\ pc' = [pc EXCEPT ![p] = "counted"]
  /\ UNCHANGED <<locks, owner, mine, key>>

\* atomic.AddInt32(&lock.ref, 1)
AddRef(p) ==
  /\ pc[p] = "loaded"
  /\ ref' = [ref EXCEPT ![mine[p]] = @ + 1]
  /\ pc' = [pc EXCEPT ![p] = "counted"]
  /\ UNCHANGED <<locks, owner, mine, key>>

\* lock.mu.Lock(); the reconcile body runs from here to MuUnlock.
MuLock(p) ==
  /\ pc[p] = "counted"
  /\ owner[mine[p]] = None
  /\ owner' = [owner EXCEPT ![mine[p]] = p]
  /\ pc' = [pc EXCEPT ![p] = "held"]
  /\ UNCHANGED <<locks, ref, mine, key>>

\* lock.mu.Unlock()
MutantForgetUnlock(p) ==
  /\ pc[p] = "held"
  /\ pc' = [pc EXCEPT ![p] = "unlocked"]
  /\ UNCHANGED <<locks, ref, owner, mine, key>>
MuUnlock(p) ==
  /\ pc[p] = "held"
  /\ owner' = [owner EXCEPT ![mine[p]] = None]
  /\ pc' = [pc EXCEPT ![p] = "unlocked"]
  /\ UNCHANGED <<locks, ref, mine, key>>

\* atomic.AddInt32(&lock.ref, -1) == 0 decides whether Delete follows.
MutantDropRefAtOne(p) ==
  /\ pc[p] = "unlocked"
  /\ ref' = [ref EXCEPT ![mine[p]] = @ - 1]
  /\ IF ref[mine[p]] = 2
     THEN pc' = [pc EXCEPT ![p] = "delete"] /\ UNCHANGED <<mine, key>>
     ELSE /\ pc' = [pc EXCEPT ![p] = "idle"]
          /\ mine' = [mine EXCEPT ![p] = None]
          /\ key' = [key EXCEPT ![p] = None]
  /\ UNCHANGED <<locks, owner>>
DropRef(p) ==
  /\ pc[p] = "unlocked"
  /\ ref' = [ref EXCEPT ![mine[p]] = @ - 1]
  /\ IF ref[mine[p]] = 1
     THEN pc' = [pc EXCEPT ![p] = "delete"] /\ UNCHANGED <<mine, key>>
     ELSE /\ pc' = [pc EXCEPT ![p] = "idle"]
          /\ mine' = [mine EXCEPT ![p] = None]
          /\ key' = [key EXCEPT ![p] = None]
  /\ UNCHANGED <<locks, owner>>

\* kl.locks.Delete(combinedKey): by key, whatever object is there by now.
Delete(p) ==
  /\ pc[p] = "delete"
  /\ locks' = [locks EXCEPT ![key[p]] = None]
  /\ pc' = [pc EXCEPT ![p] = "idle"]
  /\ mine' = [mine EXCEPT ![p] = None]
  /\ key' = [key EXCEPT ![p] = None]
  /\ UNCHANGED <<ref, owner>>

Step(p) == AddRef(p) \/ MuLock(p) \/ MuUnlock(p) \/ DropRef(p) \/ Delete(p)

LockNext == \E p \in Procs : Step(p) \/ \E k \in Keys : LoadOrStore(p, k)

\* Goroutines are scheduled and a reconcile returns (WF); sync.Mutex hands the
\* lock over to a starving waiter (SF).  Nobody is obliged to call Lock.
Fairness ==
  \A p \in Procs : /\ WF_lockVars(AddRef(p) \/ MuUnlock(p) \/ DropRef(p) \/ Delete(p))
                   /\ SF_lockVars(MuLock(p))

LockSpec == LockInit /\ [][LockNext]_lockVars /\ Fairness

-----------------------------------------------------------------------------

Active(p) == pc[p] \in {"counted", "held", "unlocked"}

\* The comment on KeyLocker: "preventing concurrent reconciliation of the same
\* resource".  No two goroutines are between Lock and its unlock with one key.
MutualExclusion ==
  \A p, q \in Procs :
    p # q /\ pc[p] = "held" /\ pc[q] = "held" => key[p] # key[q]

\* The reference counter of an object is the number of goroutines between
\* their AddInt32(+1) and their AddInt32(-1) on it, so it is never negative
\* and reaches zero exactly when the last user leaves.
RefCountExact ==
  \A o \in Objects :
    ref[o] = Cardinality({p \in Procs : Active(p) /\ mine[p] = o})

\* The map does not grow without bound: once no goroutine is inside Lock or
\* its closure with key k, the entry of k has been deleted.
NoLeakedEntry ==
  \A k \in Keys : (\A p \in Procs : key[p] # k) => locks[k] = None

\* Whoever waits for a mutex gets it, also when the object it waits on has
\* been deleted from the map meanwhile.
EveryLockIsGranted ==
  \A p \in Procs : pc[p] = "counted" ~> pc[p] = "held"
=============================================================================
