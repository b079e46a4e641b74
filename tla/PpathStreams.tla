---------------------------- MODULE PpathStreams ----------------------------
(***************************************************************************)
(* Building the protected path of a constellation: vmsrest.                 *)
(* DiscoverLinkPolicies creates one protection policy per link of the       *)
(* topology, EnsureConstellationPpath the path on the primary cluster with  *)
(* its first (embedded) stream, then one stream per further target, each    *)
(* followed by the standby streams of the other replicas to that target.    *)
(*                                                                          *)
(* The VSCR/VVR reconcile runs this from the top again after every timeout, *)
(* error or restart until it succeeds, so every step must find out what was *)
(* done before.  VAST works asynchronously: policies and paths are mirrored *)
(* to the peers, and streams change state, while the worker polls.          *)
(***************************************************************************)
EXTENDS Naturals, Sequences, SequencesExt

CONSTANTS N,            \* number of clusters (StorageClasses)
          Topologies,   \* possible spec.protectionTopology values
          Cleanup,      \* allowPeerDirCleanup: file, not block, replication
          Writers,      \* do clients write to the target directories?
          MaxFaults     \* bound on failed calls and controller restarts

SCs == 1..N

\* VastStorageClassReplicationSpec.Validate, for one primary.  That of the VVR
\* also asks for a complete mesh.
ValidTopology(t, p) ==
  /\ t # <<>>
  /\ \A i \in DOMAIN t : t[i][1] # t[i][2]
  /\ \A i, j \in DOMAIN t : i # j => {t[i][1], t[i][2]} # {t[j][1], t[j][2]}
  /\ \E i \in DOMAIN t : p \in {t[i][1], t[i][2]}

Clusters(t) == UNION {{t[i][1], t[i][2]} : i \in DOMAIN t}
CompleteMesh(t) ==
  \A a, b \in Clusters(t) : a # b => \E i \in DOMAIN t : {t[i][1], t[i][2]} = {a, b}

ASSUME PpathConstants ==
  /\ N \in Nat
  /\ \A t \in Topologies : t \in Seq(SCs \X SCs)
  /\ {Cleanup, Writers} \subseteq BOOLEAN
  /\ MaxFaults \in Nat

VARIABLES
  topo, primary,  \* spec.protectionTopology and spec.primaryStorageClass
  inOrder,        \* does VMS list the streams of a path as they were created?
  policy,         \* per link of the topology: its protection policy
  down,           \* links whose replication peer is not healthy
  visible,        \* clusters on which the protected path can be seen
  stream,         \* per directed link: its replication stream
  dir,            \* per cluster: the target directory
  named,          \* has the path's name been stored in status.ppathName?
  at, k, todo,    \* worker: control point, index of the link, standby links left
  faults

vast == <<policy, down, visible, stream, dir>>
worker == <<at, k, todo>>
vars == <<topo, primary, inOrder, vast, named, worker, faults>>

\* NewReplicationEdgesList: the primary is always the originating side.
Edges == [i \in DOMAIN topo |->
            IF topo[i][2] = primary THEN <<topo[i][2], topo[i][1]>> ELSE topo[i]]

\* The links from the primary, as indices of the topology in its order.
PrimaryPairs == {i \in DOMAIN topo : Edges[i][1] = primary}
CrossPairs(target) == {e \in Range(Edges) : e[1] # primary /\ e[2] = target}
Members == Clusters(topo)

StreamStates == {"absent", "creating", "waiting", "active", "standby"}

TypeOK ==
  /\ topo \in Topologies /\ primary \in SCs /\ inOrder \in BOOLEAN
  /\ policy \in [DOMAIN topo -> {"absent", "local", "mirrored"}]
  /\ down \subseteq DOMAIN topo
  /\ visible \subseteq SCs
  /\ stream \in [SCs \X SCs -> StreamStates]
  /\ dir \in [SCs -> {"absent", "empty", "full", "replica"}]
  /\ named \in BOOLEAN
  /\ at \in {"idle", "policy", "mirror", "ppath", "first", "add", "waiting", "cross",
             "active", "members", "stat", "rmdir", "done"}
  /\ k \in 1..Len(topo)
  /\ todo \subseteq Range(Edges)
  /\ faults \in 0..MaxFaults

Init ==
  /\ topo \in Topologies
  /\ primary \in {p \in SCs : ValidTopology(topo, p)}
  /\ inOrder \in BOOLEAN
  /\ policy = [i \in DOMAIN topo |-> "absent"]
  /\ down = {}
  /\ visible = {}
  /\ stream = [e \in SCs \X SCs |-> "absent"]
  /\ dir \in [SCs -> {"absent", "empty", "full"}]
  /\ \A c \in SCs : c \notin Members \ {primary} => dir[c] = "absent"
  /\ named = FALSE
  /\ at = "idle" /\ k = 1 /\ todo = {}
  /\ faults = 0

Go(pt, i) == at' = pt /\ k' = i
fixed == <<topo, primary, inOrder>>

------------------------------------------------------------------------------
(* DiscoverLinkPolicies.                                                     *)

Begin ==
  /\ at = "idle"
  /\ Go("policy", 1)
  /\ UNCHANGED <<fixed, vast, named, todo, faults>>

\* A peer whose status is not OK ends the pass, also when the policy exists.
PeerUnhealthy ==
  /\ at = "policy" /\ k \in down
  /\ Go("idle", 1)
  /\ UNCHANGED <<fixed, vast, named, todo, faults>>

\* ensurePolicy: an existing policy is taken as it is.
EnsurePolicy ==
  /\ at = "policy" /\ k \notin down
  /\ policy' = IF policy[k] = "absent" THEN [policy EXCEPT ![k] = "local"] ELSE policy
  /\ Go("mirror", k)
  /\ UNCHANGED <<fixed, down, visible, stream, dir, named, todo, faults>>

\* WaitForResource until the policy is mirrored on SideB.
AwaitPolicyMirror ==
  /\ at = "mirror" /\ policy[k] = "mirrored"
  /\ IF k = Len(topo) THEN Go("ppath", Min(PrimaryPairs)) ELSE Go("policy", k + 1)
  /\ UNCHANGED <<fixed, vast, named, todo, faults>>

------------------------------------------------------------------------------
(* EnsurePpath and EnsureConstellationPpath.                                 *)

\* VAST refuses a target directory that exists and is not its own.
PathOnPeerExists(target) == dir[target] \in {"empty", "full"}

StartStream(e) ==
  /\ stream' = [stream EXCEPT ![e] = "creating"]
  /\ dir' = [dir EXCEPT ![e[2]] = "replica"]

\* EnsurePpath: an existing path of that name is used; otherwise it is created
\* with the stream to the first target.
EnsurePpath ==
  LET first == Edges[k]
  IN /\ at = "ppath"
     /\ \/ /\ primary \in visible
           /\ Go("first", k)
           /\ UNCHANGED vast
        \/ /\ primary \notin visible /\ PathOnPeerExists(first[2])
           /\ Go("stat", k)
           /\ UNCHANGED vast
        \/ /\ primary \notin visible /\ ~PathOnPeerExists(first[2])
           /\ visible' = visible \cup {primary}
           /\ StartStream(first)
           /\ Go("first", k)
           /\ UNCHANGED <<policy, down>>
     /\ UNCHANGED <<fixed, named, todo, faults>>

NextTarget ==
  LET later == {i \in PrimaryPairs : i > k}
  IN IF later = {} THEN Go("members", k) ELSE Go("add", Min(later))

\* streams[0] of the path record: the embedded stream, or any other of the path
\* that a set-up before added, if VMS lists them in an order of its own.
Listed == {e \in {primary} \X SCs : stream[e] # "absent"}
FirstListed == IF inOrder THEN {Edges[k]} ELSE Listed

AwaitFirstStream ==
  /\ at = "first" /\ \E e \in FirstListed : stream[e] = "active"
  /\ NextTarget
  /\ UNCHANGED <<fixed, vast, named, todo, faults>>

\* Mutant: the presence of the stream is not checked.
AddPrimaryStream_Blind ==
  LET e == Edges[k]
  IN /\ at = "add"
     /\ \/ /\ PathOnPeerExists(e[2])
           /\ Go("stat", k)
           /\ UNCHANGED vast
        \/ /\ ~PathOnPeerExists(e[2])
           /\ StartStream(e)
           /\ Go("waiting", k)
           /\ UNCHANGED <<policy, down, visible>>
     /\ UNCHANGED <<fixed, named, todo, faults>>

\* Step a: the stream from the primary to the next target, unless a stream of
\* its name is present (names are taken to be distinct after truncateName).
AddPrimaryStream ==
  LET e == Edges[k]
  IN /\ at = "add"
     /\ \/ /\ stream[e] # "absent"
           /\ Go("waiting", k)
           /\ UNCHANGED vast
        \/ /\ stream[e] = "absent" /\ PathOnPeerExists(e[2])
           /\ Go("stat", k)
           /\ UNCHANGED vast
        \/ /\ stream[e] = "absent" /\ ~PathOnPeerExists(e[2])
           /\ StartStream(e)
           /\ Go("waiting", k)
           /\ UNCHANGED <<policy, down, visible>>
     /\ UNCHANGED <<fixed, named, todo, faults>>

\* Mutant: the standby streams are added at once.
AwaitWaitingForStandby_Skip ==
  /\ at = "waiting"
  /\ todo' = CrossPairs(Edges[k][2])
  /\ Go("cross", k)
  /\ UNCHANGED <<fixed, vast, named, faults>>

\* Step b: wait for "Waiting for a standby stream" or "Active".
AwaitWaitingForStandby ==
  /\ at = "waiting" /\ stream[Edges[k]] \in {"waiting", "active"}
  /\ todo' = CrossPairs(Edges[k][2])
  /\ Go("cross", k)
  /\ UNCHANGED <<fixed, vast, named, faults>>

\* Step c: standby streams to the same target, in the order of a Go map; each
\* waits for the path to appear on its cluster.
AddStandbyStream(e) ==
  /\ at = "cross" /\ e \in todo
  /\ e[1] \in visible
  /\ stream' = IF stream[e] = "absent" THEN [stream EXCEPT ![e] = "standby"] ELSE stream
  /\ todo' = todo \ {e}
  /\ UNCHANGED <<fixed, policy, down, visible, dir, named, at, k, faults>>

StandbysAdded ==
  /\ at = "cross" /\ todo = {}
  /\ Go("active", k)
  /\ UNCHANGED <<fixed, vast, named, todo, faults>>

\* Mutant: a stream that still waits for its standby is good enough.
AwaitActive_Early ==
  /\ at = "active" /\ stream[Edges[k]] \in {"waiting", "active"}
  /\ NextTarget
  /\ UNCHANGED <<fixed, vast, named, todo, faults>>

\* Step d: wait for "Active" before the next target.
AwaitActive ==
  /\ at = "active" /\ stream[Edges[k]] = "active"
  /\ NextTarget
  /\ UNCHANGED <<fixed, vast, named, todo, faults>>

\* The path must be visible on every cluster; then its name is stored.
AwaitMembers ==
  /\ at = "members" /\ Members \subseteq visible
  /\ named' = TRUE
  /\ Go("done", k)
  /\ UNCHANGED <<fixed, vast, todo, faults>>

\* WaitResource gives up; the reconcile fails and is retried.
Timeout ==
  /\ \/ at = "mirror" /\ policy[k] # "mirrored"
     \/ at = "first" /\ \E e \in FirstListed : stream[e] # "active"
     \/ at = "waiting" /\ stream[Edges[k]] \notin {"waiting", "active"}
     \/ at = "cross" /\ \E e \in todo : e[1] \notin visible
     \/ at = "active" /\ stream[Edges[k]] # "active"
     \/ at = "members" /\ ~(Members \subseteq visible)
  /\ Go("idle", 1)
  /\ todo' = {}
  /\ UNCHANGED <<fixed, vast, named, faults>>

\* A call fails or the controller restarts.
Fault ==
  /\ at \notin {"idle", "done"}
  /\ faults < MaxFaults
  /\ faults' = faults + 1
  /\ Go("idle", 1)
  /\ todo' = {}
  /\ UNCHANGED <<fixed, vast, named>>

------------------------------------------------------------------------------
(* handlePathOnPeerExists.  Every outcome is an error; the reconcile retries. *)

StatPeerPath ==
  /\ at = "stat"
  /\ IF Cleanup /\ dir[Edges[k][2]] = "empty" THEN Go("rmdir", k) ELSE Go("idle", 1)
  /\ UNCHANGED <<fixed, vast, named, todo, faults>>

\* Mutant: the empty directory is left where it is.
DeletePeerFolder_Keep ==
  /\ at = "rmdir"
  /\ Go("idle", 1)
  /\ UNCHANGED <<fixed, vast, named, todo, faults>>

DeletePeerFolder ==
  /\ at = "rmdir"
  /\ dir' = [dir EXCEPT ![Edges[k][2]] = "absent"]
  /\ Go("idle", 1)
  /\ UNCHANGED <<fixed, policy, down, visible, stream, named, todo, faults>>

------------------------------------------------------------------------------
(* VAST, its clients and its administrator: external.                        *)

MirrorPolicy(i) ==
  /\ policy[i] = "local"
  /\ policy' = [policy EXCEPT ![i] = "mirrored"]
  /\ UNCHANGED <<fixed, down, visible, stream, dir, named, worker, faults>>

PeerFails(i) ==
  /\ faults < MaxFaults /\ i \notin down
  /\ faults' = faults + 1
  /\ down' = down \cup {i}
  /\ UNCHANGED <<fixed, policy, visible, stream, dir, named, worker>>

PeerRecovers(i) ==
  /\ i \in down
  /\ down' = down \ {i}
  /\ UNCHANGED <<fixed, policy, visible, stream, dir, named, worker, faults>>

\* The path appears on a target once its stream from the primary is under way.
MirrorPpath(c) ==
  /\ c \notin visible /\ stream[<<primary, c>>] \in {"waiting", "active"}
  /\ visible' = visible \cup {c}
  /\ UNCHANGED <<fixed, policy, down, stream, dir, named, worker, faults>>

\* A stream is active when every replica that is there already has a standby
\* stream to the new target; until then it waits for one.
Replicas == {c \in SCs : stream[<<primary, c>>] = "active"}
ProgressStream(c) ==
  LET e == <<primary, c>>
      complete == \A r \in Replicas \ {c} : stream[<<r, c>>] = "standby"
  IN /\ stream[e] = "creating" \/ (stream[e] = "waiting" /\ complete)
     /\ stream' = [stream EXCEPT ![e] = IF complete THEN "active" ELSE "waiting"]
     /\ UNCHANGED <<fixed, policy, down, visible, dir, named, worker, faults>>

ClientWrites(c) ==
  /\ Writers /\ dir[c] = "empty"
  /\ dir' = [dir EXCEPT ![c] = "full"]
  /\ UNCHANGED <<fixed, policy, down, visible, stream, named, worker, faults>>

\* "Remove or empty the path on the peer cluster ..., then retry".
AdminClears(c) ==
  /\ dir[c] = "full" \/ (dir[c] = "empty" /\ ~Cleanup)
  /\ dir' = [dir EXCEPT ![c] = "absent"]
  /\ UNCHANGED <<fixed, policy, down, visible, stream, named, worker, faults>>

------------------------------------------------------------------------------
Work ==
  \/ Begin \/ PeerUnhealthy \/ EnsurePolicy \/ AwaitPolicyMirror
  \/ EnsurePpath \/ AwaitFirstStream
  \/ AddPrimaryStream \/ AwaitWaitingForStandby
  \/ \E e \in todo : AddStandbyStream(e)
  \/ StandbysAdded \/ AwaitActive \/ AwaitMembers
  \/ Timeout
  \/ StatPeerPath \/ DeletePeerFolder

Vast ==
  \/ \E i \in DOMAIN topo : MirrorPolicy(i) \/ PeerFails(i) \/ PeerRecovers(i)
  \/ \E c \in SCs : MirrorPpath(c) \/ ProgressStream(c)

Next ==
  \/ Work \/ Fault \/ Vast
  \/ \E c \in SCs : ClientWrites(c) \/ AdminClears(c)

Spec == Init /\ [][Next]_vars

\* The reconcile is retried until it succeeds (maybeBackoffRetry), VAST finishes
\* what it was asked for, peers recover, and an administrator follows the error
\* message.
FairSpec ==
  /\ Spec
  /\ WF_vars(Work)
  /\ \A i \in 1..(N * N) : /\ WF_vars(i \in DOMAIN topo /\ MirrorPolicy(i))
                         /\ WF_vars(i \in DOMAIN topo /\ PeerRecovers(i))
  /\ \A c \in SCs : /\ WF_vars(MirrorPpath(c)) /\ WF_vars(ProgressStream(c))
                    /\ WF_vars(AdminClears(c))

------------------------------------------------------------------------------
\* DiscoverLinkPolicies returns the links that "should be attached as replication
\* streams to that cluster's ppath": when the path's name is stored, every link of
\* the topology has its stream, active or standing by, although the set-up was cut
\* off and started over at arbitrary points.
EveryLinkStreamed == named => \A e \in Range(Edges) : stream[e] \in {"active", "standby"}

\* The strict order of EnsureConstellationPpath: a standby stream exists only
\* when the primary's stream to the same target is waiting for it or active.
StandbyAfterPrimary ==
  \A e \in Range(Edges) : stream[e] = "standby" => stream[<<primary, e[2]>>] \in {"waiting", "active"}

\* "All stream additions are idempotent": starting over never restarts a stream
\* that is active.
ActiveStaysActive ==
  [][\A e \in SCs \X SCs : stream[e] = "active" => stream'[e] = "active"]_vars

\* The path is built, through timeouts, restarts and unhealthy peers: no wait of the
\* set-up is for something only a later step of it would do.  That takes a complete
\* mesh, which only the VVR asks for, and links between two secondaries that are
\* declared towards the one the primary is linked to later, which nobody asks for.
\* It also takes a VMS that lists the embedded stream first: otherwise a set-up that
\* was cut off may wait for a later stream that still lacks its standby.
Rank(c) == CHOOSE i \in PrimaryPairs : Edges[i][2] = c
Buildable ==
  /\ CompleteMesh(topo)
  /\ \A e \in Range(Edges) : e[1] # primary => Rank(e[1]) < Rank(e[2])
SetupCompletes == Buildable /\ inOrder => <>named
=============================================================================
