--------------------------- MODULE FailoverProofs ---------------------------
(***************************************************************************)
(* What holds of Failover for every number of StorageClasses, switches,     *)
(* resync requests and faults.  TypeOK holds of every specification.  That  *)
(* a Completed status is true, that the wanted cluster stays the source and *)
(* that the VVR controller never demotes the only source, hold when the     *)
(* user waits for a settled object (Patient) and csi-addons does not repeat *)
(* a call that has succeeded (~Repeat): TLC refutes each of them as soon as *)
(* one of the two is dropped.                                               *)
(*                                                                          *)
(* The argument: between two edits only the wanted StorageClass is driven   *)
(* towards primary, so only its call or its transition can take the source  *)
(* role away from another cluster, and neither exists once it is the source *)
(* itself.  A pass that ends without an error therefore leaves either the   *)
(* promotion outstanding, or at most one confirmed primary, a source.       *)
(***************************************************************************)
EXTENDS Failover, TLAPS, FiniteSetTheorems, WellFoundedInduction

\* The user waits, and csi-addons does not repeat itself.
Calm == Patient = TRUE /\ Repeat = FALSE

\* The confirmed primaries outside D: at most one, and a source on VAST.
Clean(D) == \A x, y \in Candidates \ D : x = y /\ role[x] = "source"

\* The wanted primary's promotion is outstanding, and is not about to be undone.
Awaited == spec[want] = "primary" /\ st[want] = "secondary" /\ want \notin demote

\* The reconcile worker: it works on the current spec; the wanted cluster is among
\* those it asks for their role, and the demotions it has planned leave a source.
WorkerInv ==
  /\ pc # "idle" => want0 = want
  /\ pc \notin {"roles", "demote"} => demote = {}
  /\ (pc = "sync" /\ err = "none") =>
       spec[want] = "primary" \/ (Kind = "VVR" /\ spec[want] = "resync")
  /\ pc = "roles" => Kind = "VVR" /\ want \in ask
  /\ (pc \in {"roles", "demote"} /\ Kind = "VVR") => role[want] = "source"
  /\ (pc = "demote" /\ want \in demote) =>
       Kind = "VVR" /\ \E k \in SCs \ {want} : role[k] = "source"

\* csi-addons: only the wanted replica is being promoted or in transition.
CallInv ==
  \A s \in SCs :
    /\ st[s] = "primary" <=> done[s] = "primary"
    /\ call[s].op = "primary" => s = want /\ st[s] = "secondary"
    /\ (spec[s] = "primary" /\ s # want) => st[s] = "primary" /\ call[s] = NoCall
    /\ role[s] = "transition" => s = want

\* The wanted cluster: a confirmed primary is the source, and a promotion under
\* way for a cluster that is not one is still asked for.
RoleInv ==
  /\ st[want] = "primary" => role[want] = "source"
  /\ call[want].op = "primary" =>
       /\ call[want].role = "source" => role[want] = "source"
       /\ call[want].role = "destination" => role[want] = "destination"
       /\ spec[want] = "primary" \/ role[want] = "source"
  /\ role[want] = "transition" => spec[want] = "primary"

\* A resync is requested of a settled object, and nothing happens to it before
\* the resync is served.
ResyncInv ==
  /\ resync =>
       /\ queued \/ pc \in {"resync", "clear"} \/ (pc = "finish" /\ err # "none")
       /\ role[want] = "source" /\ Clean({})
       /\ \A s \in SCs : spec[s] = "primary" => done[s] = "primary" /\ call[s] = NoCall
  /\ pc \in {"resync", "clear"} => resync
  /\ pc \in {"ppath", "ensure", "sync", "roles", "demote"} => ~resync

\* What a pass leaves behind.
PassInv ==
  /\ \A x, y \in Candidates \ {want} : x = y
  /\ (spec[want] = "resync" /\ role[want] = "source") => Clean({})
  /\ pc = "roles" => Candidates \subseteq demote
  /\ (pc \in {"demote", "finish"} /\ err = "none") =>
       queued \/ Awaited \/ (role[want] = "source" => Clean(demote))
  /\ pc = "idle" =>
       queued \/ Awaited \/ (sync = "Completed" => role[want] = "source" /\ Clean({}))

IInv == TypeOK /\ WorkerInv /\ CallInv /\ RoleInv /\ ResyncInv /\ PassInv


------------------------------------------------------------------------------
(* Types.                                                                    *)

LEMMA TypeInit ==
  ASSUME Init
  PROVE  TypeOK
<1>1. 1 \in SCs
  BY FailoverConstants DEF SCs
<1>2. /\ 0 \in 0..MaxSwitches
      /\ 0 \in 0..MaxResyncs
      /\ 0 \in 0..MaxFaults
  BY FailoverConstants
<1> QED
  BY <1>1, <1>2 DEF Init, TypeOK, Ops, Roles

LEMMA TypeUser ==
  ASSUME TypeOK,
         \/ \E s \in SCs, m \in FailoverTypes : SwitchPrimary(s, m)
         \/ RequestResync
  PROVE  TypeOK'
<1>1. /\ switches < MaxSwitches => switches + 1 \in 0..MaxSwitches
      /\ resyncs < MaxResyncs => resyncs + 1 \in 0..MaxResyncs
  BY FailoverConstants DEF TypeOK
<1>2. CASE RequestResync
  BY <1>1, <1>2 DEF TypeOK, RequestResync, UserEdits, repVars, csiVars
<1>3. ASSUME NEW s \in SCs, NEW m \in FailoverTypes, SwitchPrimary(s, m)
      PROVE  TypeOK'
  BY <1>1, <1>3 DEF TypeOK, SwitchPrimary, UserEdits, repVars, csiVars
<1> QED
  BY <1>2, <1>3

LEMMA EnsuredStates ==
  ASSUME TypeOK, NEW s \in SCs, NEW d \in {"primary", "secondary"}
  PROVE  EnsuredState(s, d) \in Ops
  BY DEF TypeOK, EnsuredState, Ops

LEMMA DisputedFrom == Disputed \subseteq Candidates /\ Disputed \subseteq SCs
  BY DEF Disputed, Candidates

LEMMA TypeReconcile ==
  ASSUME TypeOK, Reconcile
  PROVE  TypeOK'
<1> USE DEF TypeOK, workerKeeps, bounds, repVars, csiVars
<1>1. CASE StartReconcile
  BY <1>1 DEF StartReconcile
<1>2. CASE PatchResync
  BY <1>2 DEF PatchResync, Ops
<1>3. CASE ClearResync
  BY <1>3 DEF ClearResync
<1>4. CASE PpathActive
  BY <1>4 DEF PpathActive
<1>5. CASE EnsureReplicas
  BY <1>5, EnsuredStates DEF EnsureReplicas, NotifiesParent
<1>6. CASE SyncStates
  BY <1>6, DisputedFrom DEF SyncStates
<1>7. CASE ReadRole
  BY <1>7 DEF ReadRole
<1>8. ASSUME NEW s \in SCs, DemoteReplica(s)
      PROVE  TypeOK'
  BY <1>8, EnsuredStates DEF DemoteReplica
<1>9. CASE Finish
  BY <1>9 DEF Finish
<1> QED
  BY <1>1, <1>2, <1>3, <1>4, <1>5, <1>6, <1>7, <1>8, <1>9 DEF Reconcile

\* What goes wrong in a pass.
Failure == \E e \in Errors : \/ FailStep(e) \/ EnsureFails(e)
                            \/ \E s \in SCs : DemoteFails(s, e)

LEMMA TypeFault ==
  ASSUME TypeOK, Failure \/ Crash
  PROVE  TypeOK'
<1>1. faults < MaxFaults => faults + 1 \in 0..MaxFaults
  BY FailoverConstants DEF TypeOK
<1>2. CASE Crash
  BY <1>1, <1>2 DEF TypeOK, Crash, crVars, repVars, csiVars
<1>3. ASSUME NEW e \in Errors, Fails(e)
      PROVE  err' \in Errors \cup {"none"} /\ faults' \in 0..MaxFaults
  BY <1>1, <1>3 DEF Fails, Errors
<1>4. ASSUME NEW e \in Errors, FailStep(e) \/ EnsureFails(e)
      PROVE  TypeOK'
  BY <1>3, <1>4 DEF TypeOK, FailStep, EnsureFails, Fails, crVars, repVars, csiVars
<1>5. ASSUME NEW e \in Errors, NEW s \in SCs, DemoteFails(s, e)
      PROVE  TypeOK'
  <2>1. ask = {}
    BY <1>5 DEF DemoteFails, TypeOK
  <2> QED
    BY <1>3, <1>5, <2>1 DEF TypeOK, DemoteFails, Fails, crVars, repVars, csiVars
<1> QED
  BY <1>2, <1>4, <1>5 DEF Failure

LEMMA TypeDriver ==
  ASSUME TypeOK, NEW s \in SCs,
         CallDriver(s) \/ Answer(s) \/ SettleFailover(s) \/ Reattach(s)
  PROVE  TypeOK'
<1> USE DEF TypeOK, driverKeeps, crVars, worker, bounds, repVars, csiVars
<1>1. CASE CallDriver(s)
  BY <1>1 DEF CallDriver, Ops, Roles
<1>2. CASE PromoteVolume(s)
  BY <1>2 DEF PromoteVolume, NotifiesParent, StartFailover, Sources, Ops, Roles, NoCall
<1>3. CASE DemoteVolume(s)
  BY <1>3 DEF DemoteVolume, Ops
<1>4. CASE ResyncVolume(s)
  BY <1>4 DEF ResyncVolume, Ops
<1>5. CASE SettleFailover(s)
  BY <1>5 DEF SettleFailover, Roles
<1>6. CASE Reattach(s)
  BY <1>6 DEF Reattach, Roles
<1> QED
  BY <1>1, <1>2, <1>3, <1>4, <1>5, <1>6 DEF Answer

------------------------------------------------------------------------------
(* The user.                                                                 *)

\* At rest no promotion is outstanding, nothing is in transition, and at most
\* one replica is a confirmed primary, a source like the wanted cluster.
LEMMA Rest ==
  ASSUME IInv, AtRest
  PROVE  /\ role[want] = "source" /\ Clean({}) /\ resync = FALSE /\ demote = {}
         /\ \A s \in SCs : /\ call[s] = NoCall /\ done[s] = spec[s]
                           /\ spec[s] = "primary" => st[s] = "primary" /\ role[s] = "source"
                           /\ role[s] # "transition"
<1>1. /\ queued = FALSE /\ pc = "idle" /\ sync = "Completed"
      /\ \A s \in SCs : call[s] = NoCall /\ done[s] = spec[s]
  BY DEF AtRest, IInv, TypeOK
<1>2. /\ resync = FALSE /\ demote = {} /\ want \in SCs
  BY <1>1 DEF IInv, ResyncInv, WorkerInv, TypeOK
<1>3. \A s \in SCs : spec[s] = "primary" => st[s] = "primary"
  BY <1>1 DEF IInv, CallInv
<1>4. role[want] = "source" /\ Clean({})
  BY <1>1, <1>2, <1>3 DEF IInv, PassInv, Awaited
<1>5. \A s \in SCs : spec[s] = "primary" => role[s] = "source"
  BY <1>3, <1>4 DEF Clean, Candidates, ConfirmedPrimary
<1>6. \A s \in SCs : role[s] # "transition"
  BY <1>4 DEF IInv, CallInv
<1> QED
  BY <1>1, <1>2, <1>3, <1>4, <1>5, <1>6

LEMMA SwitchStep ==
  ASSUME Calm, IInv, TypeOK', NEW s \in SCs, NEW m \in FailoverTypes, SwitchPrimary(s, m)
  PROVE  WorkerInv' /\ CallInv' /\ RoleInv' /\ ResyncInv' /\ PassInv'
<1>1. AtRest
  BY DEF Calm, SwitchPrimary, UserEdits
<1>2. /\ UNCHANGED <<spec, st, role, call, done, pc, demote, resync>>
      /\ pc = "idle" /\ queued' = TRUE /\ want' = s
  BY <1>1 DEF SwitchPrimary, UserEdits, repVars, csiVars, AtRest
<1>3. WorkerInv'
  BY <1>1, <1>2, Rest DEF WorkerInv
<1>4. CallInv'
  BY <1>1, <1>2, Rest DEF CallInv, IInv, NoCall
<1>5. RoleInv'
  BY <1>1, <1>2, Rest DEF RoleInv, CallInv, IInv, NoCall, TypeOK, Ops
<1>6. ResyncInv'
  BY <1>1, <1>2, Rest DEF ResyncInv
<1>7. Clean({})' /\ Candidates' = Candidates
  BY <1>1, <1>2, Rest DEF Clean, Candidates, ConfirmedPrimary
<1>8. PassInv'
  BY <1>2, <1>7 DEF PassInv, Clean
<1> QED
  BY <1>3, <1>4, <1>5, <1>6, <1>8

LEMMA RequestStep ==
  ASSUME Calm, IInv, TypeOK', RequestResync
  PROVE  WorkerInv' /\ CallInv' /\ RoleInv' /\ ResyncInv' /\ PassInv'
<1>1. AtRest
  BY DEF Calm, RequestResync, UserEdits
<1>2. /\ UNCHANGED <<spec, st, role, call, done, pc, demote, want>>
      /\ pc = "idle" /\ queued' = TRUE
  BY <1>1 DEF RequestResync, UserEdits, repVars, csiVars, AtRest
<1>3. WorkerInv' /\ CallInv' /\ RoleInv'
  BY <1>2 DEF WorkerInv, CallInv, RoleInv, IInv
<1>4. Clean({})' /\ Candidates' = Candidates
  BY <1>1, <1>2, Rest DEF Clean, Candidates, ConfirmedPrimary
<1>5. ResyncInv'
  BY <1>1, <1>2, <1>4, Rest DEF ResyncInv
<1>6. PassInv'
  BY <1>2, <1>4 DEF PassInv, IInv
<1> QED
  BY <1>3, <1>5, <1>6

------------------------------------------------------------------------------
(* The reconciler.                                                           *)

\* What a step keeps that writes no replica and leaves csi-addons and VAST alone.
LEMMA Untouched ==
  ASSUME IInv, UNCHANGED <<want, spec, st, role, call, done>>
  PROVE  /\ CallInv' /\ RoleInv' /\ Candidates' = Candidates
         /\ Clean({})' = Clean({})
BY DEF IInv, CallInv, RoleInv, Clean, Candidates, ConfirmedPrimary

LEMMA StartStep ==
  ASSUME IInv, TypeOK', StartReconcile
  PROVE  WorkerInv' /\ CallInv' /\ RoleInv' /\ ResyncInv' /\ PassInv'
<1>1. /\ UNCHANGED <<want, spec, st, role, call, done, resync, demote>>
      /\ pc' = IF resync THEN "resync" ELSE "ppath"
      /\ want0' = want /\ demote = {}
  BY DEF StartReconcile, repVars, csiVars, IInv, WorkerInv
<1>2. CallInv' /\ RoleInv' /\ Candidates' = Candidates /\ Clean({})' = Clean({})
  BY <1>1, Untouched
<1>3. WorkerInv'
  BY <1>1 DEF WorkerInv
<1>4. ResyncInv'
  BY <1>1, <1>2 DEF ResyncInv, IInv, TypeOK
<1>5. PassInv'
  BY <1>1, <1>2 DEF PassInv, IInv
<1> QED
  BY <1>2, <1>3, <1>4, <1>5

LEMMA PatchStep ==
  ASSUME IInv, TypeOK', PatchResync
  PROVE  WorkerInv' /\ CallInv' /\ RoleInv' /\ ResyncInv' /\ PassInv'
<1>1. /\ UNCHANGED <<want, st, role, call, done, resync, queued, demote, want0>>
      /\ pc = "resync" /\ pc' = "clear" /\ spec' = [spec EXCEPT ![want] = "resync"]
      /\ resync /\ want0 = want /\ want \in SCs /\ demote = {} /\ spec \in [SCs -> Ops]
  BY DEF PatchResync, workerKeeps, csiVars, IInv, WorkerInv, ResyncInv, TypeOK
<1>2. /\ role[want] = "source" /\ Clean({})
      /\ \A s \in SCs : spec[s] = "primary" => done[s] = "primary" /\ call[s] = NoCall
  BY <1>1 DEF IInv, ResyncInv
<1>3. Candidates' \subseteq Candidates /\ \A s \in SCs : spec'[s] = "primary" => spec[s] = "primary"
  BY <1>1 DEF Candidates, ConfirmedPrimary
<1>4. Clean({})'
  BY <1>1, <1>2, <1>3 DEF Clean
<1>5. WorkerInv'
  BY <1>1, <1>2 DEF WorkerInv, IInv
<1>6. CallInv'
  BY <1>1, <1>3 DEF CallInv, IInv
<1>7. RoleInv'
  BY <1>1, <1>2 DEF RoleInv, IInv
<1>8. ResyncInv'
  BY <1>1, <1>2, <1>3, <1>4 DEF ResyncInv, IInv
<1>9. PassInv'
  BY <1>1, <1>3, <1>4 DEF PassInv, IInv
<1> QED
  BY <1>5, <1>6, <1>7, <1>8, <1>9

LEMMA ClearStep ==
  ASSUME IInv, TypeOK', ClearResync
  PROVE  WorkerInv' /\ CallInv' /\ RoleInv' /\ ResyncInv' /\ PassInv'
<1>1. /\ UNCHANGED <<want, spec, st, role, call, done, demote, want0>>
      /\ pc = "clear" /\ pc' = "finish" /\ resync' = FALSE /\ queued' = TRUE
  BY DEF ClearResync, repVars, csiVars
<1>2. CallInv' /\ RoleInv' /\ Candidates' = Candidates /\ Clean({})' = Clean({})
  BY <1>1, Untouched
<1>3. WorkerInv'
  BY <1>1 DEF WorkerInv, IInv
<1>4. ResyncInv'
  BY <1>1 DEF ResyncInv
<1>5. PassInv'
  BY <1>1, <1>2 DEF PassInv, IInv
<1> QED
  BY <1>2, <1>3, <1>4, <1>5

LEMMA ActiveStep ==
  ASSUME IInv, TypeOK', PpathActive
  PROVE  WorkerInv' /\ CallInv' /\ RoleInv' /\ ResyncInv' /\ PassInv'
<1>1. /\ UNCHANGED <<want, spec, st, role, call, done, demote, want0, resync, queued>>
      /\ pc = "ppath" /\ pc' = "ensure"
  BY DEF PpathActive, workerKeeps, repVars, csiVars
<1>2. CallInv' /\ RoleInv' /\ Candidates' = Candidates /\ Clean({})' = Clean({})
  BY <1>1, Untouched
<1>3. WorkerInv'
  BY <1>1 DEF WorkerInv, IInv
<1>4. ResyncInv'
  BY <1>1, <1>2 DEF ResyncInv, IInv
<1>5. PassInv'
  BY <1>1, <1>2 DEF PassInv, IInv
<1> QED
  BY <1>2, <1>3, <1>4, <1>5

\* The wanted replica is asked to be primary, or a resync of it is left alone.
LEMMA EnsureStep ==
  ASSUME IInv, TypeOK', EnsureReplicas
  PROVE  WorkerInv' /\ CallInv' /\ RoleInv' /\ ResyncInv' /\ PassInv'
<1>1. /\ UNCHANGED <<want, st, role, call, done, resync, demote, want0>>
      /\ pc = "ensure" /\ pc' = "sync" /\ want0 = want /\ want \in SCs /\ demote = {}
      /\ spec' = [spec EXCEPT ![want] = EnsuredState(want, "primary")]
      /\ spec \in [SCs -> Ops]
  BY DEF EnsureReplicas, csiVars, IInv, WorkerInv, TypeOK
<1>2. /\ \A s \in SCs \ {want} : spec'[s] = spec[s]
      /\ spec'[want] = "primary" \/ (Kind = "VVR" /\ spec'[want] = "resync" /\ spec' = spec)
  <2>1. CASE EnsuredState(want, "primary") = "primary"
    BY <1>1, <2>1
  <2>2. CASE EnsuredState(want, "primary") = spec[want] /\ Kind = "VVR" /\ spec[want] = "resync"
    BY <1>1, <2>2
  <2> QED
    BY <2>1, <2>2 DEF EnsuredState
<1>3. Candidates' \ {want} = Candidates \ {want}
  BY <1>1, <1>2 DEF Candidates, ConfirmedPrimary
<1>4. WorkerInv'
  BY <1>1, <1>2 DEF WorkerInv, IInv
<1>5. CallInv'
  BY <1>1, <1>2 DEF CallInv, IInv
<1>6. RoleInv'
  BY <1>1, <1>2 DEF RoleInv, IInv
<1>7. ResyncInv'
  BY <1>1 DEF ResyncInv, IInv
<1>8. PassInv'
  <2>1. \A x, y \in Candidates' \ {want'} : x = y
    BY <1>1, <1>3 DEF PassInv, IInv
  <2>2. (spec[want] = "resync" /\ role[want] = "source")' => Clean({})'
    BY <1>1, <1>2 DEF PassInv, IInv, Clean, Candidates, ConfirmedPrimary
  <2> QED
    BY <1>1, <2>1, <2>2 DEF PassInv
<1> QED
  BY <1>4, <1>5, <1>6, <1>7, <1>8

\* Min is an element of a nonempty set of numbers.
LEMMA MinIn ==
  ASSUME NEW S, S \subseteq Nat, S # {}
  PROVE  Min(S) \in S
<1> DEFINE R == {ij \in Nat \X Nat : ij[1] < ij[2]}
<1>1. IsWellFoundedOn(R, Nat)
  BY NatLessThanWellFounded DEF OpToRel
<1> HIDE DEF R
<1>2. PICK x \in S : \A y \in S : ~(<<y, x>> \in R)
  BY <1>1, WFMin
<1>3. \A i, j \in Nat : i < j => <<i, j>> \in R
  BY DEF R
<1>4. ASSUME NEW y \in S PROVE x <= y
  <2>1. x \in Nat /\ y \in Nat /\ ~(y < x)
    BY <1>2, <1>3
  <2> QED
    BY <2>1
<1> QED
  BY <1>4 DEF Min

\* A finite set has at most one element when its elements are all equal.
LEMMA AtMostOne ==
  ASSUME NEW S, IsFiniteSet(S)
  PROVE  Cardinality(S) <= 1 <=> \A x, y \in S : x = y
<1>1. Cardinality(S) \in Nat /\ (Cardinality(S) = 0 <=> S = {})
  BY FS_CardinalityType, FS_EmptySet
<1>2. Cardinality(S) = 1 <=> \E x : S = {x}
  BY FS_Singleton
<1>3. Cardinality(S) <= 1 <=> Cardinality(S) = 0 \/ Cardinality(S) = 1
  BY <1>1
<1>4. (\A x, y \in S : x = y) <=> S = {} \/ \E x : S = {x}
  OBVIOUS
<1> QED
  BY <1>1, <1>2, <1>3, <1>4

LEMMA CandidatesFinite == IsFiniteSet(Candidates) /\ Candidates \subseteq SCs /\ SCs \subseteq Nat
<1>1. IsFiniteSet(SCs) /\ SCs \subseteq Nat
  BY FailoverConstants, FS_Interval DEF SCs
<1>2. Candidates \subseteq SCs
  BY DEF Candidates
<1> QED
  BY <1>1, <1>2, FS_Subset

\* The plan of a pass: what it will not demote is at most one source, or the
\* promotion is outstanding.  Where a VVR has to ask for roles, the wanted replica is
\* one of the candidates.
LEMMA Plan ==
  ASSUME IInv, pc = "sync"
  PROVE  /\ (err = "none" /\ (Kind = "VSCR" \/ Disputed = {})) =>
              \/ Awaited /\ want \notin Disputed
              \/ role[want] = "source" => Clean(Disputed)
         /\ Kind = "VSCR" => want \notin Disputed
         /\ (Kind = "VVR" /\ Disputed # {}) =>
              Disputed = Candidates /\ want \in Disputed /\ role[want] = "source"
<1>1. /\ want0 = want /\ want \in SCs /\ demote = {} /\ Kind \in {"VSCR", "VVR"}
      /\ err = "none" => spec[want] = "primary" \/ (Kind = "VVR" /\ spec[want] = "resync")
      /\ want \in Candidates => role[want] = "source"
      /\ want \notin Candidates /\ spec[want] = "primary" => Awaited
      /\ spec[want] = "resync" => want \notin Candidates /\ (role[want] = "source" => Clean({}))
      /\ \A x, y \in Candidates \ {want} : x = y
  BY FailoverConstants
  DEF IInv, WorkerInv, RoleInv, PassInv, TypeOK, Candidates, ConfirmedPrimary, Awaited
<1>2. CASE Kind = "VSCR"
  <2>1. Disputed = Candidates \ {want}
    BY <1>1, <1>2 DEF Disputed
  <2> QED
    BY <1>1, <1>2, <2>1 DEF Clean
<1>3. CASE Kind = "VVR" /\ Cardinality(Candidates) <= 1
  <2>1. Disputed = {} /\ \A x, y \in Candidates : x = y
    BY <1>3, CandidatesFinite, AtMostOne DEF Disputed
  <2> QED
    BY <1>1, <1>3, <2>1 DEF Clean
<1>4. CASE Kind = "VVR" /\ ~(Cardinality(Candidates) <= 1)
  <2>1. Disputed = Candidates /\ ~ \A x, y \in Candidates : x = y
    BY <1>4, CandidatesFinite, AtMostOne DEF Disputed
  <2>2. want \in Candidates
    BY <1>1, <2>1
  <2> QED
    BY <1>1, <1>4, <2>1, <2>2
<1> QED
  BY <1>1, <1>2, <1>3, <1>4

LEMMA SyncStep ==
  ASSUME IInv, TypeOK', SyncStates
  PROVE  WorkerInv' /\ CallInv' /\ RoleInv' /\ ResyncInv' /\ PassInv'
<1>1. /\ UNCHANGED <<want, spec, st, role, call, done, want0, resync, queued, err>>
      /\ pc = "sync" /\ demote' = Disputed /\ Kind \in {"VSCR", "VVR"}
      /\ ask' = IF Kind = "VVR" THEN Disputed ELSE {}
      /\ pc' = (IF Disputed = {} THEN "finish" ELSE IF Kind = "VVR" THEN "roles" ELSE "demote")
  BY FailoverConstants DEF SyncStates, workerKeeps, repVars, csiVars
<1>2. CallInv' /\ RoleInv' /\ Candidates' = Candidates /\ Clean({})' = Clean({})
  BY <1>1, Untouched
<1>3. WorkerInv'
  BY <1>1, Plan DEF WorkerInv, IInv
<1>4. ResyncInv'
  BY <1>1 DEF ResyncInv, IInv
<1>5. Clean(demote)' = Clean(Disputed)
  BY <1>1, <1>2 DEF Clean
<1>6. Awaited /\ want \notin Disputed => Awaited'
  BY <1>1 DEF Awaited
<1>7. PassInv'
  BY <1>1, <1>2, <1>5, <1>6, Plan DEF PassInv, IInv
<1> QED
  BY <1>2, <1>3, <1>4, <1>7

\* One role is read.  The wanted cluster is a source, so the search ends with one.
LEMMA ReadRoleStep ==
  ASSUME IInv, TypeOK', ReadRole
  PROVE  WorkerInv' /\ CallInv' /\ RoleInv' /\ ResyncInv' /\ PassInv'
<1>1. /\ UNCHANGED <<want, spec, st, role, call, done, want0, resync, queued, err>>
      /\ pc = "roles" /\ Kind = "VVR" /\ want \in ask /\ role[want] = "source"
      /\ ask \subseteq demote /\ demote \subseteq SCs /\ Candidates \subseteq demote
      /\ want \in SCs
  BY DEF ReadRole, workerKeeps, repVars, csiVars, IInv, TypeOK, WorkerInv, PassInv
<1>2. Min(ask) \in ask
  BY <1>1, MinIn, CandidatesFinite
<1>3. CallInv' /\ RoleInv' /\ Candidates' = Candidates /\ Clean({})' = Clean({})
  BY <1>1, Untouched
<1>4. ResyncInv'
  BY <1>1 DEF ReadRole, ResyncInv, IInv
<1>5. CASE role[Min(ask)] = "source"
  <2>1. PICK k \in ask : role[k] = "source" /\ demote' = demote \ {k} /\ ask' = {} /\ pc' = "demote"
    BY <1>2, <1>5 DEF ReadRole
  <2>2. WorkerInv'
    BY <1>1, <2>1 DEF WorkerInv, IInv
  <2>3. Clean(demote)'
    BY <1>1, <1>3, <2>1 DEF Clean
  <2>4. PassInv'
    BY <1>1, <1>3, <2>1, <2>3 DEF PassInv, IInv
  <2> QED
    BY <1>3, <1>4, <2>2, <2>4
<1>6. CASE role[Min(ask)] # "source"
  <2>1. PICK k \in ask : /\ role[k] # "source" /\ ask' = ask \ {k}
                         /\ ask # {k} => demote' = demote /\ pc' = "roles"
    BY <1>2, <1>6 DEF ReadRole
  <2>2. k # want /\ demote' = demote /\ pc' = "roles"
    BY <1>1, <2>1
  <2>3. WorkerInv'
    BY <1>1, <2>1, <2>2 DEF WorkerInv, IInv
  <2>4. PassInv'
    BY <1>1, <1>3, <2>2 DEF PassInv, IInv
  <2> QED
    BY <1>3, <1>4, <2>3, <2>4
<1> QED
  BY <1>5, <1>6

\* A demotion takes a replica out of the candidates and out of the plan.
LEMMA DemoteStep ==
  ASSUME IInv, TypeOK', NEW s \in SCs, DemoteReplica(s)
  PROVE  WorkerInv' /\ CallInv' /\ RoleInv' /\ ResyncInv' /\ PassInv'
<1>1. /\ UNCHANGED <<want, st, role, call, done, want0, resync, queued, err>>
      /\ pc = "demote" /\ pc' = (IF demote = {s} THEN "finish" ELSE "demote")
      /\ s \in demote /\ demote' = demote \ {s} /\ want \in SCs
      /\ spec' = [spec EXCEPT ![s] = "secondary"] /\ spec \in [SCs -> Ops]
  BY DEF DemoteReplica, EnsuredState, workerKeeps, csiVars, IInv, TypeOK
<1>2. /\ \A x \in SCs : spec'[x] = IF x = s THEN "secondary" ELSE spec[x]
      /\ s = want => role[want] = "source"
  BY <1>1 DEF IInv, WorkerInv
<1>3. Candidates' \subseteq Candidates /\ Candidates' \ demote' = Candidates \ demote
  BY <1>1, <1>2 DEF Candidates, ConfirmedPrimary
<1>4. WorkerInv'
  BY <1>1, <1>2 DEF WorkerInv, IInv
<1>5. CallInv'
  BY <1>1, <1>2 DEF CallInv, IInv
<1>6. RoleInv'
  BY <1>1, <1>2 DEF RoleInv, IInv
<1>7. ResyncInv'
  BY <1>1 DEF ResyncInv, IInv
<1>8. Clean({}) => Clean({})'
  BY <1>1, <1>3 DEF Clean
<1>9. Clean(demote) => Clean(demote)'
  BY <1>1, <1>3 DEF Clean
<1>10. Awaited => Awaited'
  BY <1>1, <1>2 DEF Awaited
<1>11. PassInv'
  <2>1. \A x, y \in Candidates' \ {want'} : x = y
    BY <1>1, <1>3 DEF PassInv, IInv
  <2>2. (spec[want] = "resync" /\ role[want] = "source")' => Clean({})'
    BY <1>1, <1>2, <1>8 DEF PassInv, IInv
  <2> QED
    BY <1>1, <1>9, <1>10, <2>1, <2>2 DEF PassInv, IInv
<1> QED
  BY <1>4, <1>5, <1>6, <1>7, <1>11

\* A pass that reports Completed has seen the wanted replica confirmed, hence its
\* cluster a source.
LEMMA FinishStep ==
  ASSUME IInv, TypeOK', Finish
  PROVE  WorkerInv' /\ CallInv' /\ RoleInv' /\ ResyncInv' /\ PassInv'
<1>1. /\ UNCHANGED <<want, spec, st, role, call, done, resync, demote>>
      /\ pc = "finish" /\ pc' = "idle" /\ demote = {}
      /\ queued' = (queued \/ sync' # sync \/ err # "none")
      /\ err = "none" /\ st[want] # "primary" => sync' = "InProgress"
      /\ st[want] = "primary" => role[want] = "source"
  BY DEF Finish, repVars, csiVars, IInv, WorkerInv, RoleInv
<1>2. CallInv' /\ RoleInv' /\ Candidates' = Candidates /\ Clean({})' = Clean({})
  BY <1>1, Untouched
<1>3. WorkerInv'
  BY <1>1 DEF WorkerInv
<1>4. resync => queued'
  BY <1>1 DEF ResyncInv, IInv
<1>5. ResyncInv'
  BY <1>1, <1>2, <1>4 DEF ResyncInv, IInv
<1>6. Clean(demote) = Clean({}) /\ Awaited' = Awaited
  BY <1>1 DEF Clean, Awaited
<1>7. ~queued' => Awaited' \/ (sync' = "Completed" => role'[want'] = "source" /\ Clean({})')
  BY <1>1, <1>2, <1>6 DEF PassInv, IInv
<1>8. PassInv'
  BY <1>1, <1>2, <1>7 DEF PassInv, IInv
<1> QED
  BY <1>2, <1>3, <1>5, <1>8

------------------------------------------------------------------------------
(* Faults of the reconciler.                                                 *)

\* A failure stays with the pass as its error, and a pass with an error is repeated.
LEMMA FaultStep ==
  ASSUME IInv, TypeOK', Failure \/ Crash
  PROVE  WorkerInv' /\ CallInv' /\ RoleInv' /\ ResyncInv' /\ PassInv'
<1>1. UNCHANGED <<want, spec, st, role, call, done, resync, want0>>
  BY DEF Failure, FailStep, EnsureFails, DemoteFails, Fails, Crash, crVars, repVars, csiVars
<1>2. CallInv' /\ RoleInv' /\ Candidates' = Candidates /\ Clean({})' = Clean({})
  BY <1>1, Untouched
<1>3. CASE Crash
  <2>1. pc' = "idle" /\ queued' = TRUE /\ demote' = {} /\ ask' = {}
    BY <1>3 DEF Crash
  <2> QED
    BY <1>1, <1>2, <2>1 DEF WorkerInv, ResyncInv, PassInv, IInv
<1>4. CASE Failure
  <2>1. /\ UNCHANGED queued /\ err' # "none"
        /\ \/ pc # "idle" /\ pc' = "finish" /\ demote' = {} /\ ask' = {}
           \/ pc = "ensure" /\ pc' = "sync" /\ UNCHANGED <<demote, ask>>
           \/ \E s \in SCs : /\ pc = "demote" /\ demote' = demote \ {s} /\ UNCHANGED ask
                             /\ pc' = IF demote = {s} THEN "finish" ELSE "demote"
    BY <1>4 DEF Failure, FailStep, EnsureFails, DemoteFails, Fails
  <2>2. /\ pc # "idle" /\ pc' \in {"finish", "sync", "demote"}
        /\ pc' = "demote" => pc = "demote" /\ demote' \subseteq demote
        /\ pc' # "demote" => demote' = {}
    BY <2>1 DEF IInv, WorkerInv
  <2>3. WorkerInv'
    BY <1>1, <2>1, <2>2 DEF WorkerInv, IInv
  <2>4. ResyncInv'
    BY <1>1, <1>2, <2>1, <2>2 DEF ResyncInv, IInv
  <2>5. PassInv'
    BY <1>1, <1>2, <2>1, <2>2 DEF PassInv, IInv
  <2> QED
    BY <1>2, <2>3, <2>4, <2>5
<1> QED
  BY <1>3, <1>4

------------------------------------------------------------------------------
(* csi-addons, the driver and VAST.                                          *)

\* While the wanted cluster is not the source its demotion is not planned.
LEMMA NotPlanned ==
  ASSUME IInv, role[want] # "source"
  PROVE  want \notin demote
BY DEF IInv, WorkerInv

LEMMA CallStep ==
  ASSUME Calm, IInv, TypeOK', NEW s \in SCs, CallDriver(s)
  PROVE  WorkerInv' /\ CallInv' /\ RoleInv' /\ ResyncInv' /\ PassInv'
<1>1. /\ UNCHANGED <<want, spec, st, role, done, pc, want0, resync, queued, err,
                     sync, demote, ask>>
      /\ call' = [call EXCEPT ![s] = [op |-> spec[s], role |-> role[s]]]
      /\ done[s] # spec[s] /\ DOMAIN call = SCs /\ want \in SCs
  BY DEF CallDriver, Calm, driverKeeps, crVars, worker, repVars, IInv, TypeOK
<1>2. /\ \A x \in SCs \ {s} : call'[x] = call[x]
      /\ call'[s].op = spec[s] /\ call'[s].role = role[s]
      /\ spec[s] = "primary" => s = want /\ st[s] = "secondary"
  BY <1>1 DEF IInv, CallInv, TypeOK
<1>3. Candidates' = Candidates /\ Clean({})' = Clean({}) /\ Clean(demote)' = Clean(demote)
      /\ Awaited' = Awaited
  BY <1>1 DEF Candidates, ConfirmedPrimary, Clean, Awaited
<1>4. WorkerInv'
  BY <1>1 DEF WorkerInv, IInv
<1>5. CallInv'
  BY <1>1, <1>2 DEF CallInv, IInv
<1>6. RoleInv'
  BY <1>1, <1>2 DEF RoleInv, IInv
<1>7. ResyncInv'
  BY <1>1, <1>2, <1>3 DEF ResyncInv, IInv
<1>8. PassInv'
  BY <1>1, <1>3 DEF PassInv, IInv
<1> QED
  BY <1>4, <1>5, <1>6, <1>7, <1>8

\* What PromoteVolume does: it is a call for the wanted replica; it takes no
\* source role away unless the wanted cluster is not a source, and then the
\* promotion stays outstanding.
LEMMA Promotion ==
  ASSUME IInv, TypeOK', NEW s \in SCs, PromoteVolume(s)
  PROVE  /\ s = want /\ st[want] = "secondary"
         /\ \A x \in SCs \ {want} : st'[x] = st[x] /\ done'[x] = done[x] /\ call'[x] = call[x]
         /\ call'[want] = NoCall
         /\ st'[want] = "primary" <=> done'[want] = "primary"
         /\ \A x \in SCs : role'[x] = "transition" => x = want
         /\ role[want] = "source" => \A x \in SCs : role[x] = "source" => role'[x] = "source"
         /\ st'[want] = "primary" => role[want] = "source"
         /\ role[want] # "source" => Awaited /\ Awaited'
<1>1. /\ call[s].op = "primary" /\ s = want /\ st[want] = "secondary" /\ want \in SCs
      /\ UNCHANGED <<want, spec, demote, ask>>
      /\ role \in [SCs -> Roles] /\ st \in [SCs -> {"primary", "secondary"}]
      /\ done \in [SCs -> Ops] /\ DOMAIN call = SCs
  BY DEF PromoteVolume, IInv, CallInv, driverKeeps, crVars, worker, TypeOK
<1>2. /\ call[want].role = "source" => role[want] = "source"
      /\ call[want].role = "destination" => role[want] = "destination"
      /\ spec[want] = "primary" \/ role[want] = "source"
      /\ done[want] # "primary"
  BY <1>1 DEF IInv, RoleInv, CallInv
<1>3. /\ call' = [call EXCEPT ![want] = NoCall]
      /\ \/ call[want].role = "source" /\ st' = [st EXCEPT ![want] = "primary"]
            /\ done' = [done EXCEPT ![want] = "primary"]
         \/ call[want].role # "source" /\ st' = st /\ done' = done
  BY <1>1 DEF PromoteVolume
<1>4. /\ \A x \in SCs \ {want} : st'[x] = st[x] /\ done'[x] = done[x] /\ call'[x] = call[x]
      /\ call'[want] = NoCall
      /\ st'[want] = "primary" <=> done'[want] = "primary"
      /\ st'[want] = "primary" <=> call[want].role = "source"
      /\ st'[want] \in {"primary", "secondary"}
  BY <1>1, <1>2, <1>3
<1>5. \/ role' = role
      \/ role' = [role EXCEPT ![want] = "source"]
      \/ call[want].role = "destination" /\ role' = [role EXCEPT ![want] = "transition"]
      \/ /\ call[want].role = "destination"
         /\ role' = [x \in SCs |-> IF x = want \/ x \in Sources THEN "standalone" ELSE role[x]]
  BY <1>1 DEF PromoteVolume, StartFailover
<1>6. \A x \in SCs : role[x] = "transition" => x = want
  BY DEF IInv, CallInv
<1>7. /\ \A x \in SCs : role'[x] = "transition" => x = want
      /\ role[want] = "source" => \A x \in SCs : role[x] = "source" => role'[x] = "source"
  BY <1>1, <1>2, <1>5, <1>6
<1>8. role[want] # "source" => Awaited /\ Awaited'
  BY <1>1, <1>2, <1>4, NotPlanned DEF Awaited
<1> QED
  BY <1>1, <1>2, <1>4, <1>7, <1>8

LEMMA PromoteStep ==
  ASSUME IInv, TypeOK', NEW s \in SCs, PromoteVolume(s)
  PROVE  WorkerInv' /\ CallInv' /\ RoleInv' /\ ResyncInv' /\ PassInv'
<1>1. /\ UNCHANGED <<want, spec, pc, want0, resync, err, sync, demote, ask>>
      /\ queued' = (queued \/ NotifiesParent) /\ want \in SCs
  BY DEF PromoteVolume, driverKeeps, crVars, worker, IInv, TypeOK
<1>2. /\ st[want] = "secondary" /\ call[want] # NoCall /\ call'[want].op # "primary"
      /\ \A x \in SCs \ {want} : st'[x] = st[x] /\ done'[x] = done[x] /\ call'[x] = call[x]
      /\ call'[want] = NoCall
      /\ st'[want] = "primary" <=> done'[want] = "primary"
      /\ \A x \in SCs : role'[x] = "transition" => x = want
      /\ role[want] = "source" => \A x \in SCs : role[x] = "source" => role'[x] = "source"
      /\ st'[want] = "primary" => role[want] = "source"
      /\ role[want] # "source" => Awaited /\ Awaited'
  <2>1. NoCall.op # "primary" /\ call[s].op = "primary"
    BY DEF NoCall, PromoteVolume
  <2> QED
    BY <2>1, Promotion
<1>3. Candidates' \ {want} = Candidates \ {want}
  BY <1>1, <1>2 DEF Candidates, ConfirmedPrimary
<1>4. queued' \/ (Candidates' = Candidates /\ (Awaited => Awaited'))
  <2>1. CASE spec[want] = "primary" /\ st'[want] = "primary"
    <3>1. want \in Candidates' /\ want \notin Candidates
      BY <1>1, <1>2, <2>1 DEF Candidates, ConfirmedPrimary
    <3> QED
      BY <1>1, <3>1 DEF NotifiesParent
  <2>2. CASE ~(spec[want] = "primary" /\ st'[want] = "primary")
    <3>1. want \notin Candidates' /\ want \notin Candidates
      BY <1>1, <1>2, <2>2 DEF Candidates, ConfirmedPrimary
    <3>2. Awaited => Awaited'
      BY <1>1, <2>2 DEF Awaited, TypeOK
    <3> QED
      BY <1>3, <3>1, <3>2
  <2> QED
    BY <2>1, <2>2
<1>5. spec[want] # "primary" => Candidates' = Candidates /\ role[want] = "source"
  BY <1>1, <1>2, <1>3 DEF Candidates, ConfirmedPrimary, Awaited
<1>6. role[want] = "source" /\ Candidates' = Candidates =>
        (Clean({}) => Clean({})') /\ (Clean(demote) => Clean(demote)')
  BY <1>1, <1>2 DEF Clean, Candidates
<1>7. WorkerInv'
  BY <1>1, <1>2, NotPlanned DEF WorkerInv, IInv
<1>8. CallInv'
  BY <1>1, <1>2 DEF CallInv, IInv
<1>9. RoleInv'
  BY <1>1, <1>2 DEF RoleInv, IInv, Awaited
<1>10. ResyncInv'
  BY <1>1, <1>2, <1>5, <1>6 DEF ResyncInv, IInv
<1>11. PassInv'
  <2>1. \A x, y \in Candidates' \ {want'} : x = y
    BY <1>1, <1>3 DEF PassInv, IInv
  <2>2. (spec[want] = "resync" /\ role[want] = "source")' => Clean({})'
    BY <1>1, <1>5, <1>6 DEF PassInv, IInv
  <2>3. pc' = "roles" => Candidates' \subseteq demote'
    <3>1. pc = "roles" => want \in demote /\ Candidates \subseteq demote
      BY DEF IInv, TypeOK, WorkerInv, PassInv
    <3> QED
      BY <1>1, <1>3, <3>1
  <2>4. CASE role[want] = "source"
    BY <1>1, <1>2, <1>4, <1>6, <2>1, <2>2, <2>3, <2>4 DEF PassInv, IInv
  <2>5. CASE role[want] # "source"
    BY <1>2, <2>1, <2>2, <2>3, <2>5 DEF PassInv
  <2> QED
    BY <2>4, <2>5
<1> QED
  BY <1>7, <1>8, <1>9, <1>10, <1>11

\* An answer to another call can only take a confirmed primary away, and only
\* the wanted one: it answers a demotion or a resync that has been overtaken.
LEMMA OtherAnswerStep ==
  ASSUME IInv, TypeOK', NEW s \in SCs, DemoteVolume(s) \/ ResyncVolume(s)
  PROVE  WorkerInv' /\ CallInv' /\ RoleInv' /\ ResyncInv' /\ PassInv'
<1>1. /\ UNCHANGED <<want, spec, role, pc, want0, resync, queued, err, sync, demote, ask>>
      /\ want \in SCs /\ call' = [call EXCEPT ![s] = NoCall]
      /\ DOMAIN call = SCs /\ DOMAIN st = SCs /\ DOMAIN done = SCs
  BY DEF DemoteVolume, ResyncVolume, driverKeeps, crVars, worker, IInv, TypeOK
<1>2. call[s] # NoCall /\ NoCall.op # "primary"
  <2>1. NoCall.op = "none" /\ call[s].op \in {"secondary", "resync"}
    BY DEF NoCall, DemoteVolume, ResyncVolume
  <2> QED
    BY <2>1
<1>3. \/ st' = st /\ done' = done
      \/ /\ st' = [st EXCEPT ![s] = "secondary"]
         /\ \E o \in {"secondary", "resync"} : done' = [done EXCEPT ![s] = o]
  BY DEF DemoteVolume, ResyncVolume
<1>4. /\ \A x \in SCs \ {s} : st'[x] = st[x] /\ done'[x] = done[x] /\ call'[x] = call[x]
      /\ call'[s] = NoCall
      /\ st'[s] = "primary" <=> done'[s] = "primary"
      /\ st'[s] = "primary" => st[s] = "primary"
      /\ st[s] = "secondary" => st'[s] = "secondary"
  BY <1>1, <1>3 DEF IInv, CallInv
<1>5. spec[s] = "primary" => s = want
  BY <1>2 DEF IInv, CallInv
<1>6. Candidates' \subseteq Candidates
  BY <1>1, <1>4 DEF Candidates, ConfirmedPrimary
<1>7. (Clean({}) => Clean({})') /\ (Clean(demote) => Clean(demote)') /\ (Awaited => Awaited')
  BY <1>1, <1>4, <1>6 DEF Clean, Awaited
<1>8. WorkerInv'
  BY <1>1 DEF WorkerInv, IInv
<1>9. CallInv'
  BY <1>1, <1>2, <1>4, <1>5 DEF CallInv, IInv
<1>10. RoleInv'
  BY <1>1, <1>2, <1>4 DEF RoleInv, IInv
<1>11. ResyncInv'
  BY <1>1, <1>2, <1>4, <1>7 DEF ResyncInv, IInv
<1>12. PassInv'
  BY <1>1, <1>6, <1>7 DEF PassInv, IInv
<1> QED
  BY <1>8, <1>9, <1>10, <1>11, <1>12

\* VAST completes the graceful failover of the wanted cluster; its promotion
\* has still to be confirmed.
LEMMA SettleStep ==
  ASSUME IInv, TypeOK', NEW s \in SCs, SettleFailover(s)
  PROVE  WorkerInv' /\ CallInv' /\ RoleInv' /\ ResyncInv' /\ PassInv'
<1>1. /\ UNCHANGED <<want, spec, st, call, done, pc, want0, resync, queued, err, sync,
                     demote, ask>>
      /\ s = want /\ role[want] = "transition" /\ want \in SCs
      /\ role' = [x \in SCs |-> IF x = s THEN "source"
                                ELSE IF x \in Sources THEN "destination" ELSE role[x]]
  BY DEF SettleFailover, driverKeeps, crVars, worker, repVars, csiVars, IInv, CallInv, TypeOK
<1>2. /\ role'[want] = "source"
      /\ \A x \in SCs : role'[x] = "transition" => x = want
  BY <1>1 DEF IInv, CallInv
<1>3. Awaited /\ Awaited' /\ want \notin demote /\ ~resync
  BY <1>1, NotPlanned DEF Awaited, IInv, RoleInv, ResyncInv, TypeOK
<1>4. Candidates' = Candidates
  BY <1>1 DEF Candidates, ConfirmedPrimary
<1>5. WorkerInv'
  BY <1>1, <1>3 DEF WorkerInv, IInv
<1>6. CallInv'
  BY <1>1, <1>2 DEF CallInv, IInv
<1>7. RoleInv'
  BY <1>1, <1>2, <1>3 DEF RoleInv, IInv, Awaited
<1>8. ResyncInv'
  BY <1>1, <1>3 DEF ResyncInv, IInv
<1>9. PassInv'
  BY <1>1, <1>3, <1>4 DEF PassInv, IInv, Awaited
<1> QED
  BY <1>5, <1>6, <1>7, <1>8, <1>9

LEMMA ReattachStep ==
  ASSUME IInv, TypeOK', NEW s \in SCs, Reattach(s)
  PROVE  WorkerInv' /\ CallInv' /\ RoleInv' /\ ResyncInv' /\ PassInv'
<1>1. /\ UNCHANGED <<want, spec, st, call, done, pc, want0, resync, queued, err, sync,
                     demote, ask>>
      /\ role[s] = "standalone" /\ want \in SCs
      /\ role' = [role EXCEPT ![s] = "destination"] /\ DOMAIN role = SCs
  BY DEF Reattach, driverKeeps, crVars, worker, repVars, csiVars, IInv, TypeOK
<1>2. /\ \A x \in SCs \ {s} : role'[x] = role[x]
      /\ role'[s] = "destination"
      /\ \A x \in SCs : role'[x] = "source" <=> role[x] = "source"
  BY <1>1
<1>3. /\ Candidates' = Candidates /\ Awaited' = Awaited
      /\ Clean({}) => Clean({})'
      /\ Clean(demote) => Clean(demote)'
  BY <1>1, <1>2 DEF Candidates, ConfirmedPrimary, Clean, Awaited
<1>4. WorkerInv'
  BY <1>1, <1>2 DEF WorkerInv, IInv
<1>5. CallInv'
  BY <1>1, <1>2 DEF CallInv, IInv
<1>6. RoleInv'
  BY <1>1, <1>2 DEF RoleInv, IInv
<1>7. ResyncInv'
  BY <1>1, <1>2, <1>3 DEF ResyncInv, IInv
<1>8. PassInv'
  BY <1>1, <1>2, <1>3 DEF PassInv, IInv
<1> QED
  BY <1>4, <1>5, <1>6, <1>7, <1>8

------------------------------------------------------------------------------
(* The theorems.                                                             *)

LEMMA TypeStep ==
  ASSUME TypeOK, [Next]_vars
  PROVE  TypeOK'
<1>1. CASE UNCHANGED vars
  BY <1>1 DEF TypeOK, vars, crVars, repVars, csiVars, worker, bounds
<1> QED
  BY <1>1, TypeUser, TypeReconcile, TypeFault, TypeDriver DEF Next, Failure

\* Every variable of the model keeps its type, whatever the user, csi-addons
\* and the faults do.
THEOREM TypeCorrect == Spec => []TypeOK
<1>1. Init => TypeOK
  BY TypeInit
<1>2. TypeOK /\ [Next]_vars => TypeOK'
  BY TypeStep
<1> QED
  BY <1>1, <1>2, PTL DEF Spec

LEMMA InitInv ==
  ASSUME Init
  PROVE  IInv
<1>1. TypeOK
  BY TypeInit
<1>2. /\ want = 1 /\ 1 \in SCs
      /\ \A s \in SCs : /\ spec[s] = (IF s = 1 THEN "primary" ELSE "secondary")
                        /\ role[s] = (IF s = 1 THEN "source" ELSE "destination")
                        /\ st[s] = spec[s] /\ done[s] = spec[s] /\ call[s] = NoCall
      /\ pc = "idle" /\ demote = {} /\ resync = FALSE
  BY <1>1 DEF Init, TypeOK
<1>3. Candidates = {1} /\ Clean({})
  BY <1>2 DEF Candidates, ConfirmedPrimary, Clean
<1>4. WorkerInv /\ ResyncInv
  BY <1>2 DEF WorkerInv, ResyncInv
<1>5. CallInv /\ RoleInv
  BY <1>2 DEF CallInv, RoleInv, NoCall
<1>6. PassInv
  BY <1>2, <1>3 DEF PassInv
<1> QED
  BY <1>1, <1>4, <1>5, <1>6 DEF IInv

LEMMA Stutter ==
  ASSUME IInv, UNCHANGED vars
  PROVE  IInv'
<1>1. UNCHANGED <<want, resync, sync, queued, spec, st, role, call, done, pc, want0, demote,
                  ask, err>>
  BY DEF vars, crVars, repVars, csiVars, worker
<1>2. /\ Candidates' = Candidates /\ Awaited' = Awaited
      /\ Clean({})' = Clean({}) /\ Clean(demote)' = Clean(demote)
  BY <1>1 DEF Candidates, ConfirmedPrimary, Clean, Awaited
<1>3. TypeOK'
  BY TypeStep DEF IInv
<1>4. WorkerInv' /\ CallInv' /\ RoleInv'
  BY <1>1 DEF IInv, WorkerInv, CallInv, RoleInv
<1>5. ResyncInv' /\ PassInv'
  BY <1>1, <1>2 DEF IInv, ResyncInv, PassInv
<1> QED
  BY <1>3, <1>4, <1>5 DEF IInv

\* The inductive invariant behind the properties below.
THEOREM Inductive ==
  ASSUME Calm
  PROVE  Spec => []IInv
<1>1. Init => IInv
  BY InitInv
<1>2. IInv /\ [Next]_vars => IInv'
  <2> SUFFICES ASSUME IInv, [Next]_vars PROVE IInv'
    OBVIOUS
  <2>1. TypeOK'
    BY TypeStep DEF IInv
  <2>2. CASE UNCHANGED vars
    BY <2>2, Stutter
  <2>3. ASSUME NEW s \in SCs, NEW m \in FailoverTypes, SwitchPrimary(s, m) PROVE IInv'
    BY <2>1, <2>3, SwitchStep DEF IInv
  <2>4. CASE RequestResync
    BY <2>1, <2>4, RequestStep DEF IInv
  <2>5. CASE Reconcile
    BY <2>1, <2>5, StartStep, PatchStep, ClearStep, ActiveStep, EnsureStep, SyncStep, ReadRoleStep,
       DemoteStep, FinishStep
    DEF IInv, Reconcile
  <2>6. CASE Failure \/ Crash
    BY <2>1, <2>6, FaultStep DEF IInv
  <2>7. ASSUME NEW s \in SCs, CallDriver(s) \/ Answer(s) \/ SettleFailover(s) \/ Reattach(s)
        PROVE  IInv'
    BY <2>1, <2>7, CallStep, PromoteStep, OtherAnswerStep, SettleStep, ReattachStep
    DEF IInv, Answer
  <2> QED
    BY <2>2, <2>3, <2>4, <2>5, <2>6, <2>7 DEF Next, Failure
<1> QED
  BY <1>1, <1>2, PTL DEF Spec

\* At rest a Completed status is true: the cluster the user wants as primary is
\* the source on VAST, and no two replicas are confirmed primaries.
THEOREM CompletedMeansSource ==
  ASSUME Calm
  PROVE  Spec => []CompletedIsTrue
<1>1. ASSUME IInv PROVE CompletedIsTrue
  <2> SUFFICES ASSUME AtRest
               PROVE  role[want] = "source" /\ Cardinality(Candidates) <= 1
    BY DEF CompletedIsTrue
  <2>1. role[want] = "source" /\ Clean({})
    BY <1>1, Rest
  <2>2. \A x, y \in Candidates : x = y
    BY <2>1 DEF Clean
  <2> QED
    BY <2>1, <2>2, CandidatesFinite, AtMostOne
<1> QED
  BY <1>1, Inductive, PTL

\* The VVR controller never demotes the only source.
THEOREM DemotionIsSafe ==
  ASSUME Calm, Kind = "VVR"
  PROVE  Spec => DemotionLeavesSource
<1>1. ASSUME IInv, [Next]_vars, NEW s \in SCs,
             spec[s] # "secondary", spec'[s] = "secondary", role[s] = "source"
      PROVE  Sources # {s}
  <2>1. s \in demote /\ pc = "demote"
    <3>1. spec' # spec /\ spec \in [SCs -> Ops] /\ want0 \in SCs
      BY <1>1 DEF IInv, TypeOK
    <3>2. ~UNCHANGED vars
      BY <3>1 DEF vars, repVars
    <3>3. \/ PatchResync \/ EnsureReplicas
          \/ \E x \in SCs : DemoteReplica(x)
      BY <1>1, <3>1, <3>2
      DEF Next, Reconcile, Answer, SwitchPrimary, RequestResync, UserEdits, StartReconcile,
          ClearResync, PpathActive, SyncStates, ReadRole, Finish, FailStep, EnsureFails, DemoteFails, Fails, Crash, CallDriver,
          PromoteVolume, DemoteVolume, ResyncVolume, SettleFailover, Reattach, repVars
    <3>4. CASE PatchResync
      BY <1>1, <3>1, <3>4 DEF PatchResync
    <3>5. CASE EnsureReplicas
      BY <1>1, <3>1, <3>5 DEF EnsureReplicas, EnsuredState
    <3>6. ASSUME NEW x \in SCs, DemoteReplica(x)
          PROVE  s \in demote /\ pc = "demote"
      BY <1>1, <3>1, <3>6 DEF DemoteReplica
    <3> QED
      BY <3>3, <3>4, <3>5, <3>6
  <2>2. role[want] = "source" /\ want \in SCs
    BY <1>1, <2>1 DEF IInv, WorkerInv, TypeOK
  <2>3. CASE s = want
    BY <1>1, <2>1, <2>3 DEF IInv, WorkerInv, Sources
  <2>4. CASE s # want
    BY <2>2, <2>4 DEF Sources
  <2> QED
    BY <2>3, <2>4
<1>2. IInv /\ [Next]_vars =>
        [\A s \in SCs : (spec[s] # "secondary" /\ spec'[s] = "secondary" /\ role[s] = "source")
           => Sources # {s}]_vars
  BY <1>1
<1> QED
  BY <1>2, Inductive, PTL DEF Spec, DemotionLeavesSource

\* The wanted cluster stays the source until the user asks for another: a promotion
\* still under way that would take the role away is its own, and has not read a role
\* that makes it start a failover.
THEOREM WantedStays ==
  ASSUME Calm
  PROVE  Spec => WantedStaysSource
<1>1. ASSUME IInv, [Next]_vars, role[want] = "source", want' = want
      PROVE  role'[want] = "source"
  <2>0. TypeOK' /\ want \in SCs /\ role \in [SCs -> Roles]
    BY <1>1, TypeStep DEF IInv, TypeOK
  <2>1. ASSUME NEW s \in SCs, PromoteVolume(s) PROVE role'[want] = "source"
    BY <1>1, <2>0, <2>1, Promotion
  <2>2. ASSUME NEW s \in SCs, SettleFailover(s) PROVE role'[want] = "source"
    <3>1. s = want
      BY <1>1, <2>2 DEF IInv, CallInv, SettleFailover
    <3> QED
      BY <1>1, <2>2, <3>1 DEF SettleFailover
  <2>3. ASSUME NEW s \in SCs, Reattach(s) PROVE role'[want] = "source"
    BY <1>1, <2>0, <2>3 DEF Reattach
  <2>4. CASE UNCHANGED role
    BY <1>1, <2>4
  <2> QED
    BY <1>1, <2>1, <2>2, <2>3, <2>4
    DEF Next, Reconcile, Answer, SwitchPrimary, RequestResync, UserEdits, StartReconcile,
        PatchResync, ClearResync, PpathActive, EnsureReplicas, SyncStates, ReadRole, DemoteReplica,
        Finish, FailStep, EnsureFails, DemoteFails, Fails, Crash, CallDriver, DemoteVolume, ResyncVolume, workerKeeps, vars
<1>2. IInv /\ [Next]_vars =>
        [role[want] = "source" /\ want' = want => role'[want] = "source"]_vars
  BY <1>1
<1> QED
  BY <1>2, Inductive, PTL DEF Spec, WantedStaysSource
=============================================================================
