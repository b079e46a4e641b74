------------------------- MODULE PpathStreamsProofs -------------------------
(***************************************************************************)
(* What holds of PpathStreams for every topology, any number of clusters    *)
(* and any number of timeouts, failed calls and restarts: the order of the  *)
(* streams, that none which is active is started again, and that no link is *)
(* left without a stream when the name of the path is stored.               *)
(***************************************************************************)
EXTENDS PpathStreams, TLAPS, WellFoundedInduction

First == Min(PrimaryPairs)

TopoInv == ValidTopology(topo, primary)

\* The streams, wherever the worker is.  What is there before the path is nothing;
\* streams follow the links, towards a standby only from a secondary; no target
\* comes before the first one is active, so each of them has a standby stream from
\* the first when it is active itself.
StreamInv ==
  /\ primary \notin visible => \A e \in SCs \X SCs : stream[e] = "absent"
  /\ \A e \in SCs \X SCs : stream[e] # "absent" =>
       e \in Range(Edges) /\ (stream[e] = "standby" <=> e[1] # primary)
  /\ \A c \in visible : c # primary => stream[<<primary, c>>] \in {"waiting", "active"}
  /\ \A e \in SCs \X SCs : stream[e] = "standby" =>
       stream[<<primary, e[2]>>] \in {"waiting", "active"}
  /\ \A c \in SCs : c # Edges[First][2] /\ stream[<<primary, c>>] # "absent" =>
       stream[Edges[First]] = "active"
  /\ \A c \in SCs : c # Edges[First][2] /\ stream[<<primary, c>>] = "active" =>
       stream[<<Edges[First][2], c>>] = "standby"

\* A target the worker has finished with.
Streamed(i) ==
  /\ stream[Edges[i]] = "active"
  /\ i # First => \A e \in CrossPairs(Edges[i][2]) : stream[e] # "absent"

\* Where the worker is, the targets before the one at hand are finished.
WorkInv ==
  /\ at \notin {"idle", "policy", "mirror"} => k \in PrimaryPairs
  /\ at \in {"ppath", "first"} => k = First
  /\ at \in {"first", "add", "waiting", "cross", "active"} => primary \in visible
  /\ at \in {"add", "waiting", "cross", "active"} =>
       k # First /\ \A i \in PrimaryPairs : i < k => Streamed(i)
  /\ at \in {"cross", "active"} => stream[Edges[k]] \in {"waiting", "active"}
  /\ at = "cross" =>
       /\ todo \subseteq CrossPairs(Edges[k][2])
       /\ \A e \in CrossPairs(Edges[k][2]) \ todo : stream[e] # "absent"
  /\ at = "active" => \A e \in CrossPairs(Edges[k][2]) : stream[e] # "absent"
  /\ at \in {"members", "done"} \/ named => \A i \in PrimaryPairs : Streamed(i)
  /\ named => Members \subseteq visible

IInv == TypeOK /\ TopoInv /\ StreamInv /\ WorkInv

-----------------------------------------------------------------------------
(* The links.                                                               *)

\* Min is the least element of a nonempty set of numbers.
LEMMA MinOf ==
  ASSUME NEW S, S \subseteq Nat, S # {}
  PROVE  Min(S) \in S /\ \A i \in S : Min(S) <= i
<1> DEFINE R == {ij \in Nat \X Nat : ij[1] < ij[2]}
<1>1. IsWellFoundedOn(R, Nat)
  BY NatLessThanWellFounded DEF OpToRel
<1> HIDE DEF R
<1>2. PICK x \in S : \A y \in S : ~(<<y, x>> \in R)
  BY <1>1, WFMin
<1>3. \A i, j \in Nat : i < j => <<i, j>> \in R
  BY DEF R
<1>4. ASSUME NEW y \in S PROVE x <= y
  <2>1. x \in Nat /\ y \in Nat /\ ~(y < x)
    BY <1>2, <1>3
  <2> QED
    BY <2>1
<1> QED
  BY <1>4 DEF Min

\* A link joins two clusters and is the only one to do so; the primary is on the
\* receiving side of none.
LEMMA Links ==
  ASSUME TypeOK, TopoInv
  PROVE  /\ DOMAIN topo = 1..Len(topo) /\ DOMAIN Edges = DOMAIN topo
         /\ \A i \in DOMAIN topo : /\ Edges[i] \in SCs \X SCs
                                  /\ Edges[i][1] # Edges[i][2]
                                  /\ Edges[i][2] # primary
         /\ \A i, j \in DOMAIN topo : i # j =>
              Edges[i] # Edges[j] /\ Edges[i] # <<Edges[j][2], Edges[j][1]>>
         /\ PrimaryPairs # {}
<1>1. topo \in Seq(SCs \X SCs) /\ DOMAIN topo = 1..Len(topo)
  BY PpathConstants DEF TypeOK
<1>2. DOMAIN Edges = DOMAIN topo
  BY DEF Edges
<1>3. \A i \in DOMAIN topo : topo[i] \in SCs \X SCs /\ topo[i] = <<topo[i][1], topo[i][2]>>
  BY <1>1
<1>4. ASSUME NEW i \in DOMAIN topo
      PROVE  Edges[i] \in SCs \X SCs /\ Edges[i][1] # Edges[i][2] /\ Edges[i][2] # primary
             /\ {Edges[i][1], Edges[i][2]} = {topo[i][1], topo[i][2]}
  <2>1. topo[i][1] # topo[i][2]
    BY DEF TopoInv, ValidTopology
  <2> QED
    BY <1>3, <2>1 DEF Edges
<1>5. ASSUME NEW i \in DOMAIN topo, NEW j \in DOMAIN topo, i # j
      PROVE  Edges[i] # Edges[j] /\ Edges[i] # <<Edges[j][2], Edges[j][1]>>
  <2>1. {topo[i][1], topo[i][2]} # {topo[j][1], topo[j][2]}
    BY <1>5 DEF TopoInv, ValidTopology
  <2>2. {Edges[i][1], Edges[i][2]} # {Edges[j][1], Edges[j][2]}
    BY <2>1, <1>4
  <2> QED
    BY <2>2
<1>6. PrimaryPairs # {}
  <2>1. PICK i \in DOMAIN topo : primary \in {topo[i][1], topo[i][2]}
    BY DEF TopoInv, ValidTopology
  <2>2. Edges[i][1] = primary
    BY <2>1 DEF Edges
  <2> QED
    BY <2>2 DEF PrimaryPairs
<1> QED
  BY <1>1, <1>2, <1>4, <1>5, <1>6

\* The links from the primary, of which there is a first, are told apart by their
\* targets; a link between two others is towards a cluster that is not the primary.
LEMMA PrimaryLinks ==
  ASSUME TypeOK, TopoInv
  PROVE  /\ PrimaryPairs \subseteq DOMAIN topo /\ PrimaryPairs \subseteq Nat
         /\ First \in PrimaryPairs /\ \A i \in PrimaryPairs : First <= i
         /\ \A i \in PrimaryPairs : /\ Edges[i] = <<primary, Edges[i][2]>>
                                    /\ Edges[i][2] \in SCs /\ Edges[i] \in SCs \X SCs
         /\ \A i, j \in PrimaryPairs : i # j => Edges[i][2] # Edges[j][2]
         /\ \A i \in DOMAIN topo : Edges[i][1] = primary => i \in PrimaryPairs
         /\ \A e \in Range(Edges) : /\ e \in SCs \X SCs /\ e[2] # primary
                                    /\ \E i \in DOMAIN topo : e = Edges[i]
<1>1. PrimaryPairs \subseteq DOMAIN topo /\ PrimaryPairs \subseteq Nat /\ PrimaryPairs # {}
  BY Links DEF PrimaryPairs
<1>2. First \in PrimaryPairs /\ \A i \in PrimaryPairs : First <= i
  BY <1>1, MinOf DEF First
<1>3. \A i \in PrimaryPairs : Edges[i] = <<primary, Edges[i][2]>> /\ Edges[i][2] \in SCs
                              /\ Edges[i] \in SCs \X SCs
  BY Links DEF PrimaryPairs
<1>4. \A i, j \in PrimaryPairs : i # j => Edges[i][2] # Edges[j][2]
  BY <1>1, <1>3, Links
<1>5. \A e \in Range(Edges) : /\ e \in SCs \X SCs /\ e[2] # primary
                              /\ \E i \in DOMAIN topo : e = Edges[i]
  BY Links DEF Range
<1> QED
  BY <1>1, <1>2, <1>3, <1>4, <1>5 DEF PrimaryPairs

-----------------------------------------------------------------------------
(* The streams.                                                             *)

\* What no step takes back.
Grows ==
  /\ UNCHANGED fixed
  /\ visible \subseteq visible'
  /\ \A e \in SCs \X SCs :
       /\ stream[e] # "absent" => stream'[e] # "absent"
       /\ stream[e] \in {"waiting", "active"} => stream'[e] \in {"waiting", "active"}
       /\ stream[e] = "active" => stream'[e] = "active"

\* What follows from the topology stays when the topology does.
LEMMA FixedLinks ==
  ASSUME UNCHANGED fixed
  PROVE  /\ Edges' = Edges /\ PrimaryPairs' = PrimaryPairs /\ First' = First
         /\ primary' = primary /\ topo' = topo
         /\ TopoInv' = TopoInv /\ Members' = Members
         /\ \A t : CrossPairs(t)' = CrossPairs(t)
<1>1. topo' = topo /\ primary' = primary
  BY DEF fixed
<1>2. Edges' = Edges
  BY <1>1 DEF Edges
<1>3. PrimaryPairs' = PrimaryPairs
  BY <1>1, <1>2 DEF PrimaryPairs
<1>4. First' = First
  BY <1>3 DEF First
<1>5. TopoInv' = TopoInv /\ Members' = Members
  BY <1>1 DEF TopoInv, Members
<1>6. \A t : CrossPairs(t)' = CrossPairs(t)
  BY <1>1, <1>2 DEF CrossPairs
<1> QED
  BY <1>1, <1>2, <1>3, <1>4, <1>5, <1>6

LEMMA SameStreams ==
  ASSUME StreamInv, UNCHANGED <<fixed, visible, stream>>
  PROVE  StreamInv' /\ Grows
<1>1. UNCHANGED fixed
  BY DEF fixed
<1> QED
  BY <1>1, FixedLinks DEF StreamInv, Grows

\* The path is created with its first stream.
LEMMA EnsurePpathStreams ==
  ASSUME IInv, EnsurePpath
  PROVE  StreamInv' /\ Grows
<1>1. CASE UNCHANGED vast
  BY <1>1, SameStreams DEF EnsurePpath, vast, fixed, IInv
<1>2. CASE primary \notin visible /\ visible' = visible \cup {primary} /\ StartStream(Edges[k])
  <2>1. k = First /\ Edges[k] \in SCs \X SCs /\ Edges[k] = <<primary, Edges[First][2]>>
        /\ Edges[k] \in Range(Edges) /\ Edges[k][1] = primary
    BY Links, PrimaryLinks DEF IInv, WorkInv, EnsurePpath, Range
  <2>2. UNCHANGED fixed
    BY DEF EnsurePpath
  <2>3. stream' = [stream EXCEPT ![Edges[k]] = "creating"]
    BY <1>2 DEF StartStream
  <2>4. \A e \in SCs \X SCs : stream[e] = "absent"
    BY <1>2 DEF IInv, StreamInv
  <2>5. \A e \in SCs \X SCs : stream'[e] = IF e = Edges[k] THEN "creating" ELSE "absent"
    BY <2>1, <2>3, <2>4 DEF IInv, TypeOK
  <2>6. visible = {}
    <3>1. ASSUME NEW c \in visible PROVE FALSE
      <4>1. c \in SCs /\ primary \in SCs /\ c # primary
        BY <1>2, <3>1 DEF IInv, TypeOK
      <4>2. stream[<<primary, c>>] \in {"waiting", "active"}
        BY <3>1, <4>1 DEF IInv, StreamInv
      <4> QED
        BY <2>4, <4>1, <4>2
    <3> QED
      BY <3>1
  <2>7. Grows
    BY <1>2, <2>2, <2>4 DEF Grows
  <2>8. StreamInv'
    BY <1>2, <2>1, <2>2, <2>5, <2>6, FixedLinks DEF StreamInv
  <2> QED
    BY <2>7, <2>8
<1> QED
  BY <1>1, <1>2 DEF EnsurePpath

\* A stream to a further target is added where there is none.
LEMMA AddPrimaryStreamStreams ==
  ASSUME IInv, AddPrimaryStream
  PROVE  StreamInv' /\ Grows
<1>1. CASE UNCHANGED vast
  BY <1>1, SameStreams DEF AddPrimaryStream, vast, fixed, IInv
<1>2. CASE stream[Edges[k]] = "absent" /\ StartStream(Edges[k]) /\ UNCHANGED <<policy, down, visible>>
  <2>1. k \in PrimaryPairs /\ k # First /\ First < k /\ primary \in visible /\ Streamed(First)
    <3>1. k \in PrimaryPairs /\ k # First /\ primary \in visible
          /\ \A i \in PrimaryPairs : i < k => Streamed(i)
      BY DEF IInv, WorkInv, AddPrimaryStream
    <3>2. First < k /\ First \in PrimaryPairs
      BY <3>1, PrimaryLinks DEF IInv
    <3> QED
      BY <3>1, <3>2
  <2>2. /\ Edges[k] = <<primary, Edges[k][2]>> /\ Edges[k][2] # Edges[First][2]
        /\ Edges[k] \in SCs \X SCs /\ Edges[k] \in Range(Edges) /\ Edges[k][2] # primary
        /\ Edges[k][2] \in SCs /\ primary \in SCs /\ Edges[First] # Edges[k]
        /\ Edges[First] \in SCs \X SCs
    BY <2>1, Links, PrimaryLinks DEF IInv, Range, TypeOK
  <2>3. UNCHANGED fixed
    BY DEF AddPrimaryStream
  <2>4. \A e \in SCs \X SCs : stream'[e] = IF e = Edges[k] THEN "creating" ELSE stream[e]
    BY <1>2, <2>2 DEF StartStream, IInv, TypeOK
  <2>5. Grows
    BY <1>2, <2>3, <2>4 DEF Grows
  <2>6. stream[Edges[First]] = "active"
    BY <2>1 DEF Streamed
  <2>7. StreamInv'
    <3>1. primary' \notin visible' => \A e \in SCs \X SCs : stream'[e] = "absent"
      BY <1>2, <2>1, <2>3, FixedLinks
    <3>2. \A e \in SCs \X SCs : stream'[e] # "absent" =>
            e \in Range(Edges) /\ (stream'[e] = "standby" <=> e[1] # primary)
      BY <2>2, <2>4 DEF IInv, StreamInv
    <3>3. \A c \in visible : c # primary => stream'[<<primary, c>>] \in {"waiting", "active"}
      <4> TAKE c \in visible
      <4> HAVE c # primary
      <4>1. c \in SCs /\ stream[<<primary, c>>] \in {"waiting", "active"}
        BY DEF IInv, StreamInv, TypeOK
      <4>2. <<primary, c>> # Edges[k] /\ <<primary, c>> \in SCs \X SCs
        BY <1>2, <2>2, <4>1
      <4> QED
        BY <2>4, <4>1, <4>2
    <3>4. \A e \in SCs \X SCs : stream'[e] = "standby" =>
            stream'[<<primary, e[2]>>] \in {"waiting", "active"}
      BY <1>2, <2>2, <2>4 DEF IInv, StreamInv
    <3>5. \A c \in SCs : c # Edges[First][2] /\ stream'[<<primary, c>>] # "absent" =>
            stream'[Edges[First]] = "active"
      BY <2>2, <2>4, <2>6
    <3>6. \A c \in SCs : c # Edges[First][2] /\ stream'[<<primary, c>>] = "active" =>
            stream'[<<Edges[First][2], c>>] = "standby"
      <4> TAKE c \in SCs
      <4> HAVE c # Edges[First][2] /\ stream'[<<primary, c>>] = "active"
      <4>1. Edges[First][2] \in SCs /\ Edges[First][2] # primary
        BY Links, PrimaryLinks DEF IInv
      <4>2. stream[<<primary, c>>] = "active"
        BY <2>2, <2>4
      <4>3. stream[<<Edges[First][2], c>>] = "standby"
        BY <4>2 DEF IInv, StreamInv
      <4>4. <<Edges[First][2], c>> # Edges[k]
        BY <2>2, <4>1
      <4> QED
        BY <2>4, <4>1, <4>3, <4>4
    <3> QED
      BY <1>2, <2>3, <3>1, <3>2, <3>3, <3>4, <3>5, <3>6, FixedLinks DEF StreamInv
  <2> QED
    BY <2>5, <2>7
<1> QED
  BY <1>1, <1>2 DEF AddPrimaryStream

\* A standby stream is added to the target the worker has at hand.
LEMMA AddStandbyStreamStreams ==
  ASSUME IInv, NEW e \in todo, AddStandbyStream(e)
  PROVE  StreamInv' /\ Grows
<1>1. CASE stream[e] # "absent"
  BY <1>1, SameStreams DEF AddStandbyStream, fixed, IInv
<1>2. CASE stream[e] = "absent"
  <2>1. /\ e \in Range(Edges) /\ e[1] # primary /\ e[2] = Edges[k][2] /\ k \in PrimaryPairs
        /\ stream[Edges[k]] \in {"waiting", "active"} /\ e[1] \in visible
    BY DEF IInv, WorkInv, CrossPairs, AddStandbyStream
  <2>2. e \in SCs \X SCs /\ Edges[k] = <<primary, e[2]>> /\ primary \in visible
        /\ primary \in SCs /\ e[1] # primary
    BY <2>1, PrimaryLinks DEF IInv, WorkInv, AddStandbyStream, TypeOK
  <2>3. UNCHANGED <<fixed, visible>>
    BY DEF AddStandbyStream
  <2>4. \A d \in SCs \X SCs : stream'[d] = IF d = e THEN "standby" ELSE stream[d]
    BY <1>2, <2>2 DEF AddStandbyStream, IInv, TypeOK
  <2>5. Grows
    BY <1>2, <2>3, <2>4 DEF Grows
  <2>6. \A c \in SCs : stream'[<<primary, c>>] = stream[<<primary, c>>]
    BY <2>2, <2>4
  <2>7. StreamInv'
    <3>1. primary \notin visible => \A d \in SCs \X SCs : stream'[d] = "absent"
      BY <2>2
    <3>2. \A d \in SCs \X SCs : stream'[d] # "absent" =>
            d \in Range(Edges) /\ (stream'[d] = "standby" <=> d[1] # primary)
      BY <2>1, <2>4 DEF IInv, StreamInv
    <3>3. \A c \in visible : c # primary => stream'[<<primary, c>>] \in {"waiting", "active"}
      BY <2>6 DEF IInv, StreamInv, TypeOK
    <3>4. \A d \in SCs \X SCs : stream'[d] = "standby" =>
            stream'[<<primary, d[2]>>] \in {"waiting", "active"}
      BY <2>1, <2>2, <2>4, <2>6 DEF IInv, StreamInv
    <3>5. Edges[First] \in SCs \X SCs /\ Edges[First] = <<primary, Edges[First][2]>>
          /\ Edges[First][2] \in SCs
      BY PrimaryLinks DEF IInv
    <3>6. \A c \in SCs : c # Edges[First][2] /\ stream'[<<primary, c>>] # "absent" =>
            stream'[Edges[First]] = "active"
      BY <2>6, <3>5 DEF IInv, StreamInv
    <3>7. \A c \in SCs : c # Edges[First][2] /\ stream'[<<primary, c>>] = "active" =>
            stream'[<<Edges[First][2], c>>] = "standby"
      BY <2>4, <2>6, <3>5 DEF IInv, StreamInv
    <3> QED
      BY <2>3, <3>1, <3>2, <3>3, <3>4, <3>6, <3>7, FixedLinks DEF StreamInv
  <2> QED
    BY <2>5, <2>7
<1> QED
  BY <1>1, <1>2

\* The path appears on a target only when its stream is under way.
LEMMA MirrorPpathStreams ==
  ASSUME IInv, NEW c \in SCs, MirrorPpath(c)
  PROVE  StreamInv' /\ Grows
<1>1. UNCHANGED <<fixed, stream>> /\ visible' = visible \cup {c}
      /\ stream[<<primary, c>>] \in {"waiting", "active"}
  BY DEF MirrorPpath
<1>2. primary \in visible
  BY <1>1 DEF IInv, StreamInv, TypeOK
<1> QED
  BY <1>1, <1>2, FixedLinks DEF IInv, StreamInv, Grows

\* A stream becomes active only when the replicas that are there stand by.
LEMMA ProgressStreamStreams ==
  ASSUME IInv, NEW c \in SCs, ProgressStream(c)
  PROVE  StreamInv' /\ Grows
<1> DEFINE e == <<primary, c>>
<1>1. UNCHANGED <<fixed, visible>> /\ e \in SCs \X SCs /\ stream[e] \in {"creating", "waiting"}
  BY DEF ProgressStream, IInv, TypeOK
<1>2. PICK new \in {"waiting", "active"} :
        /\ \A d \in SCs \X SCs : stream'[d] = IF d = e THEN new ELSE stream[d]
        /\ new = "active" => \A r \in Replicas \ {c} : stream[<<r, c>>] = "standby"
        /\ stream[e] = "waiting" => new = "active"
  BY <1>1 DEF ProgressStream, IInv, TypeOK
<1>3. e \in Range(Edges) /\ c # primary /\ primary \in visible /\ primary \in SCs
  <2>1. e \in Range(Edges) /\ primary \in visible
    BY <1>1 DEF IInv, StreamInv
  <2> QED
    BY <2>1, PrimaryLinks DEF IInv, TypeOK
<1> HIDE DEF e
<1>4. Edges[First] \in SCs \X SCs /\ Edges[First] = <<primary, Edges[First][2]>>
      /\ Edges[First][2] \in SCs /\ Edges[First][2] # primary
  BY Links, PrimaryLinks DEF IInv
<1>5. Grows
  BY <1>1, <1>2 DEF Grows
<1>6. StreamInv'
  <2>1. \A d \in SCs \X SCs : stream'[d] # "absent" =>
          d \in Range(Edges) /\ (stream'[d] = "standby" <=> d[1] # primary)
    BY <1>1, <1>2, <1>3 DEF IInv, StreamInv, e
  <2>2. \A d \in visible : d # primary => stream'[<<primary, d>>] \in {"waiting", "active"}
    BY <1>2, <1>3 DEF IInv, StreamInv, TypeOK
  <2>3. \A d \in SCs \X SCs : stream'[d] = "standby" =>
          stream'[<<primary, d[2]>>] \in {"waiting", "active"}
    BY <1>2, <1>3 DEF IInv, StreamInv
  <2>4. \A d \in SCs : d # Edges[First][2] /\ stream'[<<primary, d>>] # "absent" =>
          stream'[Edges[First]] = "active"
    BY <1>1, <1>2, <1>3, <1>4 DEF IInv, StreamInv
  <2>5. ASSUME NEW d \in SCs, d # Edges[First][2], stream'[<<primary, d>>] = "active"
        PROVE  stream'[<<Edges[First][2], d>>] = "standby"
    <3>1. <<Edges[First][2], d>> \in SCs \X SCs /\ <<Edges[First][2], d>> # e
      BY <1>4 DEF e
    <3>2. CASE stream[<<primary, d>>] = "active"
      BY <1>2, <2>5, <3>1, <3>2 DEF IInv, StreamInv
    <3>3. CASE stream[<<primary, d>>] # "active"
      <4>1. d = c /\ new = "active"
        BY <1>2, <1>3, <2>5, <3>3 DEF e
      <4>2. stream[Edges[First]] = "active"
        BY <1>1, <2>5, <4>1 DEF IInv, StreamInv, e
      <4>3. Edges[First][2] \in Replicas \ {c}
        BY <1>4, <2>5, <4>1, <4>2 DEF Replicas
      <4> QED
        BY <1>2, <3>1, <4>1, <4>3
    <3> QED
      BY <3>2, <3>3
  <2> QED
    BY <1>1, <1>3, <2>1, <2>2, <2>3, <2>4, <2>5, FixedLinks DEF StreamInv
<1> QED
  BY <1>5, <1>6

\* Every other step leaves path and streams alone.
LEMMA StreamStep ==
  ASSUME IInv, [Next]_vars
  PROVE  StreamInv' /\ Grows
<1>1. CASE UNCHANGED <<fixed, visible, stream>>
  BY <1>1, SameStreams DEF IInv
<1>2. CASE EnsurePpath
  BY <1>2, EnsurePpathStreams
<1>3. CASE AddPrimaryStream
  BY <1>3, AddPrimaryStreamStreams
<1>4. CASE \E e \in todo : AddStandbyStream(e)
  BY <1>4, AddStandbyStreamStreams
<1>5. CASE \E c \in SCs : MirrorPpath(c) \/ ProgressStream(c)
  BY <1>5, MirrorPpathStreams, ProgressStreamStreams
<1> QED
  BY <1>1, <1>2, <1>3, <1>4, <1>5
  DEF Next, Work, Vast, vars, vast, fixed, Begin, PeerUnhealthy, EnsurePolicy, AwaitPolicyMirror,
      AwaitFirstStream, AwaitWaitingForStandby, StandbysAdded, AwaitActive, AwaitMembers,
      Timeout, Fault, StatPeerPath, DeletePeerFolder, MirrorPolicy, PeerFails, PeerRecovers,
      ClientWrites, AdminClears

-----------------------------------------------------------------------------
(* The worker.                                                              *)

\* The next target is the one after those that are finished.
LEMMA NextTargetType ==
  ASSUME TypeOK, TopoInv, NextTarget
  PROVE  at' \in {"members", "add"} /\ k' \in 1..Len(topo)
<1> DEFINE later == {i \in PrimaryPairs : i > k}
<1>1. later # {} => Min(later) \in later
  BY MinOf, PrimaryLinks
<1>2. later \subseteq 1..Len(topo)
  BY PrimaryLinks, Links
<1>3. IF later = {} THEN Go("members", k) ELSE Go("add", Min(later))
  BY DEF NextTarget
<1> HIDE DEF later
<1> QED
  BY <1>1, <1>2, <1>3 DEF Go, TypeOK

LEMMA TypeStep ==
  ASSUME TypeOK, TopoInv, [Next]_vars
  PROVE  TypeOK'
<1>1. /\ MaxFaults \in Nat /\ DOMAIN topo = 1..Len(topo) /\ Len(topo) \in Nat /\ 1 \in DOMAIN topo
      /\ First \in 1..Len(topo)
  <2>1. topo \in Seq(SCs \X SCs) /\ topo # <<>>
    BY PpathConstants DEF TypeOK, TopoInv, ValidTopology
  <2> QED
    BY <2>1, PpathConstants, PrimaryLinks, Links
<1>2. \A i \in DOMAIN topo : Edges[i] \in SCs \X SCs /\ Edges[i][2] \in SCs
  BY Links
<1>3. \A t : CrossPairs(t) \subseteq Range(Edges)
  BY DEF CrossPairs
<1>4. UNCHANGED fixed => Edges' = Edges
  BY FixedLinks
<1>0. /\ 1 \in 1..Len(topo) /\ (k # Len(topo) => k + 1 \in 1..Len(topo))
      /\ faults < MaxFaults => faults + 1 \in 0..MaxFaults
  <2>1. k \in 1..Len(topo) /\ faults \in 0..MaxFaults
    BY DEF TypeOK
  <2>2. 1 \in 1..Len(topo) /\ Len(topo) \in Nat
    BY <1>1
  <2>3. k # Len(topo) => k + 1 \in 1..Len(topo)
    BY <2>1, <2>2
  <2>4. faults < MaxFaults => faults + 1 \in 0..MaxFaults
    BY <1>1, <2>1
  <2> QED
    BY <2>2, <2>3, <2>4
<1> USE <1>1 DEF TypeOK, Go, fixed, vast, worker
<1>5. CASE UNCHANGED vars
  BY <1>4, <1>5 DEF vars
<1>6. CASE Begin \/ PeerUnhealthy \/ AwaitMembers \/ Timeout \/ Fault \/ StandbysAdded
  <2>1. UNCHANGED <<fixed, vast>> /\ k' \in {1, k} /\ todo' \in {{}, todo}
        /\ at' \in {"policy", "idle", "done", "active"} /\ named' \in {TRUE, named}
        /\ (faults' = faults \/ (faults < MaxFaults /\ faults' = faults + 1))
    BY <1>6 DEF Begin, PeerUnhealthy, AwaitMembers, Timeout, Fault, StandbysAdded
  <2>2. k' \in 1..Len(topo) /\ faults' \in 0..MaxFaults /\ named' \in BOOLEAN
        /\ todo' \subseteq Range(Edges)
    BY <1>0, <2>1
  <2> QED
    BY <1>4, <2>1, <2>2
<1>7. CASE EnsurePolicy
  BY <1>4, <1>7 DEF EnsurePolicy
<1>8. CASE AwaitPolicyMirror
  <2>1. UNCHANGED <<fixed, vast, named, todo, faults>> /\ at' \in {"ppath", "policy"}
    BY <1>8 DEF AwaitPolicyMirror
  <2>2. (k' = First) \/ (k # Len(topo) /\ k' = k + 1)
    BY <1>8 DEF AwaitPolicyMirror, First
  <2>3. k' \in 1..Len(topo)
    BY <1>0, <2>2
  <2> QED
    BY <1>4, <2>1, <2>3
<1>9. CASE EnsurePpath
  <2>1. UNCHANGED <<fixed, named, todo, faults, policy, down>> /\ at' \in {"first", "stat"} /\ k' = k
    BY <1>9 DEF EnsurePpath
  <2>2. visible' \in {visible, visible \cup {primary}}
    BY <1>9 DEF EnsurePpath
  <2>3. UNCHANGED <<stream, dir>> \/ StartStream(Edges[k])
    BY <1>9 DEF EnsurePpath
  <2>4. stream' \in [SCs \X SCs -> StreamStates] /\ dir' \in [SCs -> {"absent", "empty", "full", "replica"}]
    BY <1>2, <2>3 DEF StartStream, StreamStates
  <2> QED
    BY <1>4, <2>1, <2>2, <2>4
<1>10. CASE AwaitFirstStream
  BY <1>4, <1>10, NextTargetType DEF AwaitFirstStream
<1>11. CASE AddPrimaryStream
  BY <1>2, <1>4, <1>11 DEF AddPrimaryStream, StartStream, StreamStates
<1>12. CASE AwaitWaitingForStandby
  BY <1>3, <1>4, <1>12 DEF AwaitWaitingForStandby
<1>13. CASE \E e \in todo : AddStandbyStream(e)
  BY <1>4, <1>13 DEF AddStandbyStream, StreamStates
<1>14. CASE AwaitActive
  BY <1>4, <1>14, NextTargetType DEF AwaitActive
<1>15. CASE StatPeerPath
  BY <1>4, <1>15 DEF StatPeerPath
<1>16. CASE DeletePeerFolder
  BY <1>2, <1>4, <1>16 DEF DeletePeerFolder
<1>17. CASE \E i \in DOMAIN topo : MirrorPolicy(i) \/ PeerFails(i) \/ PeerRecovers(i)
  <2>1. UNCHANGED <<fixed, visible, stream, dir, named, worker>>
        /\ (faults' = faults \/ (faults < MaxFaults /\ faults' = faults + 1))
    BY <1>17 DEF MirrorPolicy, PeerFails, PeerRecovers
  <2>2. policy' \in [DOMAIN topo -> {"absent", "local", "mirrored"}] /\ down' \subseteq DOMAIN topo
    BY <1>17 DEF MirrorPolicy, PeerFails, PeerRecovers
  <2> QED
    BY <1>4, <2>1, <2>2
<1>18. CASE \E c \in SCs : MirrorPpath(c) \/ ProgressStream(c)
  BY <1>4, <1>18 DEF MirrorPpath, ProgressStream, StreamStates
<1>19. CASE \E c \in SCs : ClientWrites(c) \/ AdminClears(c)
  BY <1>4, <1>19 DEF ClientWrites, AdminClears
<1> QED
  BY <1>5, <1>6, <1>7, <1>8, <1>9, <1>10, <1>11, <1>12, <1>13, <1>14, <1>15, <1>16, <1>17,
     <1>18, <1>19
  DEF Next, Work, Vast

\* What is finished stays finished.
LEMMA StaysStreamed ==
  ASSUME TypeOK, TopoInv, Grows, NEW i \in PrimaryPairs, Streamed(i)
  PROVE  Streamed(i)'
<1>1. UNCHANGED fixed
  BY DEF Grows
<1>2. Edges[i] \in SCs \X SCs /\ \A e \in CrossPairs(Edges[i][2]) : e \in SCs \X SCs
  BY PrimaryLinks DEF CrossPairs
<1> QED
  BY <1>1, <1>2, FixedLinks DEF Streamed, Grows

\* A step that leaves the worker alone leaves its invariant alone.
LEMMA SameWorker ==
  ASSUME TypeOK, TopoInv, WorkInv, Grows, UNCHANGED <<at, k, todo, named>>
  PROVE  WorkInv'
<1>1. UNCHANGED fixed /\ visible \subseteq visible'
  BY DEF Grows
<1>2. \A i \in PrimaryPairs : Streamed(i) => Streamed(i)'
  BY StaysStreamed
<1>3. \A t : \A e \in CrossPairs(t) : stream[e] # "absent" => stream'[e] # "absent"
  BY PrimaryLinks DEF CrossPairs, Grows
<1>4. \A i \in PrimaryPairs : stream[Edges[i]] \in {"waiting", "active"} =>
        stream'[Edges[i]] \in {"waiting", "active"}
  BY PrimaryLinks DEF Grows
<1> QED
  BY <1>1, <1>2, <1>3, <1>4, FixedLinks DEF WorkInv

\* After a finished target comes the next one, or the wait for the members.
LEMMA NextTargetWork ==
  ASSUME IInv, NextTarget, k \in PrimaryPairs, Streamed(k), primary \in visible,
         \A i \in PrimaryPairs : i < k => Streamed(i),
         UNCHANGED <<fixed, visible, stream, named, todo>>
  PROVE  WorkInv'
<1> DEFINE later == {i \in PrimaryPairs : i > k}
<1>1. PrimaryPairs \subseteq Nat /\ First \in PrimaryPairs /\ \A i \in PrimaryPairs : First <= i
  BY PrimaryLinks DEF IInv
<1>2. \A i \in PrimaryPairs : i <= k => Streamed(i)
  BY <1>1
<1>3. later # {} => Min(later) \in later /\ \A i \in later : Min(later) <= i
  BY <1>1, MinOf
<1>4. IF later = {} THEN at' = "members" /\ k' = k ELSE at' = "add" /\ k' = Min(later)
  BY DEF NextTarget, Go
<1>5. UNCHANGED fixed
  BY DEF fixed
<1>6. \A i \in PrimaryPairs : Streamed(i)' = Streamed(i)
  BY <1>5, FixedLinks DEF Streamed
<1>7. CASE later = {}
  <2>1. \A i \in PrimaryPairs : i <= k
    BY <1>1, <1>7
  <2>2. \A i \in PrimaryPairs : Streamed(i)'
    BY <1>2, <1>6, <2>1
  <2> QED
    BY <1>4, <1>5, <1>7, <2>2, FixedLinks DEF WorkInv, IInv
<1>8. CASE later # {}
  <2>1. k' \in PrimaryPairs /\ k' > k /\ at' = "add"
    BY <1>3, <1>4, <1>8
  <2>2. \A i \in PrimaryPairs : i < k' => i <= k
    <3> SUFFICES ASSUME NEW i \in PrimaryPairs, i < k', ~(i <= k) PROVE FALSE
      OBVIOUS
    <3>1. i \in later
      BY <1>1
    <3>2. k' <= i
      BY <1>3, <1>4, <1>8, <3>1
    <3> QED
      BY <1>1, <2>1, <3>2
  <2>3. k' # First
    BY <1>1, <2>1
  <2>4. \A i \in PrimaryPairs : i < k' => Streamed(i)'
    BY <1>2, <1>6, <2>2
  <2> QED
    BY <1>5, <1>6, <2>1, <2>3, <2>4, FixedLinks DEF WorkInv, IInv
<1> QED
  BY <1>7, <1>8

\* A pass that ends, or has not come to the path yet, claims nothing.
LEMMA EarlyWork ==
  ASSUME IInv, at' \in {"idle", "policy", "mirror"}, UNCHANGED <<fixed, visible, stream, named>>
  PROVE  WorkInv'
<1>1. UNCHANGED fixed
  BY DEF fixed
<1>2. \A i \in PrimaryPairs : Streamed(i)' = Streamed(i)
  BY <1>1, FixedLinks DEF Streamed
<1> QED
  BY <1>1, <1>2, FixedLinks DEF IInv, WorkInv

\* The steps that take the worker to a target or to the next point of its work there,
\* when path and streams grow meanwhile.
LEMMA WorkStep ==
  ASSUME IInv, [Next]_vars
  PROVE  WorkInv'
<1>1. Grows /\ UNCHANGED fixed /\ TypeOK /\ TopoInv
  BY StreamStep DEF Grows, IInv
<1>2. CASE UNCHANGED <<at, k, todo, named>>
  BY <1>1, <1>2, SameWorker DEF IInv
<1>3. CASE Begin \/ PeerUnhealthy \/ EnsurePolicy \/ Timeout \/ Fault \/ DeletePeerFolder
  BY <1>3, EarlyWork DEF Begin, PeerUnhealthy, EnsurePolicy, Timeout, Fault, DeletePeerFolder, Go, vast, fixed
<1> USE <1>1 DEF Go
<1>4. \A i \in PrimaryPairs : Streamed(i) => Streamed(i)'
  BY StaysStreamed
<1>5. \A t : \A e \in CrossPairs(t) : stream[e] # "absent" => stream'[e] # "absent"
  BY PrimaryLinks DEF CrossPairs, Grows
<1>6. \A i \in PrimaryPairs : stream[Edges[i]] \in {"waiting", "active"} =>
        stream'[Edges[i]] \in {"waiting", "active"}
  BY PrimaryLinks DEF Grows
<1>7. visible \subseteq visible'
  BY DEF Grows
<1>8. CASE AwaitPolicyMirror
  <2>1. CASE at' = "policy"
    BY <1>8, <2>1, EarlyWork DEF AwaitPolicyMirror, vast, fixed
  <2>2. CASE at' = "ppath" /\ k' = First
    BY <1>4, <1>7, <1>8, <2>2, FixedLinks, PrimaryLinks DEF IInv, WorkInv, AwaitPolicyMirror
  <2> QED
    BY <1>8, <2>1, <2>2 DEF AwaitPolicyMirror, First
<1>9. CASE EnsurePpath
  <2>1. k' = k /\ at = "ppath" /\ at' \in {"first", "stat"} /\ named' = named
        /\ (at' = "first" => primary \in visible')
    BY <1>9 DEF EnsurePpath, vast
  <2> QED
    BY <1>4, <1>7, <2>1, FixedLinks DEF IInv, WorkInv
<1>10. CASE AddPrimaryStream
  <2>1. k' = k /\ at = "add" /\ at' \in {"waiting", "stat"} /\ named' = named
    BY <1>10 DEF AddPrimaryStream
  <2> QED
    BY <1>4, <1>7, <2>1, FixedLinks DEF IInv, WorkInv
<1>11. CASE AwaitWaitingForStandby
  <2>1. k' = k /\ at = "waiting" /\ at' = "cross" /\ named' = named
        /\ stream[Edges[k]] \in {"waiting", "active"} /\ todo' = CrossPairs(Edges[k][2])
    BY <1>11 DEF AwaitWaitingForStandby
  <2> QED
    BY <1>4, <1>6, <1>7, <2>1, FixedLinks DEF IInv, WorkInv
<1>12. ASSUME NEW e \in todo, AddStandbyStream(e) PROVE WorkInv'
  <2>1. at = "cross" /\ UNCHANGED <<at, k, named>> /\ todo' = todo \ {e} /\ k \in PrimaryPairs
    BY <1>12 DEF AddStandbyStream, IInv, WorkInv
  <2>2. stream'[e] # "absent"
    <3>1. e \in SCs \X SCs
      BY <2>1, PrimaryLinks DEF IInv, WorkInv, CrossPairs
    <3> QED
      BY <1>12, <3>1 DEF AddStandbyStream, TypeOK
  <2>3. \A d \in CrossPairs(Edges[k][2]) \ todo' : stream'[d] # "absent"
    BY <1>5, <2>1, <2>2 DEF IInv, WorkInv
  <2> QED
    BY <1>4, <1>6, <1>7, <2>1, <2>3, FixedLinks DEF IInv, WorkInv
<1>13. CASE StandbysAdded
  <2>1. at = "cross" /\ todo = {} /\ at' = "active" /\ k' = k /\ named' = named
    BY <1>13 DEF StandbysAdded
  <2> QED
    BY <1>4, <1>5, <1>6, <1>7, <2>1, FixedLinks DEF IInv, WorkInv
<1>14. CASE AwaitFirstStream
  <2>1. k = First /\ k \in PrimaryPairs /\ primary \in visible /\ NextTarget
    BY <1>14 DEF AwaitFirstStream, IInv, WorkInv
  <2>2. \A i \in PrimaryPairs : i < k => Streamed(i)
    BY <2>1, PrimaryLinks
  \* Whichever stream VMS lists first: no other is there before this one is active.
  <2>3. stream[Edges[k]] = "active"
    <3>1. PICK e \in FirstListed : stream[e] = "active"
      BY <1>14 DEF AwaitFirstStream
    <3>2. CASE e = Edges[k]
      BY <3>1, <3>2
    <3>3. CASE e # Edges[k]
      <4>1. e = <<primary, e[2]>> /\ e[2] \in SCs /\ stream[e] # "absent"
        BY <3>1, <3>3 DEF FirstListed, Listed
      <4>2. e[2] # Edges[First][2]
        BY <2>1, <3>3, <4>1, PrimaryLinks
      <4> QED
        BY <2>1, <4>1, <4>2 DEF IInv, StreamInv
    <3> QED
      BY <3>2, <3>3
  <2>4. Streamed(k)
    BY <2>1, <2>3 DEF Streamed
  <2> QED
    BY <1>14, <2>1, <2>2, <2>4, NextTargetWork DEF AwaitFirstStream, vast, fixed
<1>15. CASE AwaitActive
  <2>1. k \in PrimaryPairs /\ primary \in visible /\ Streamed(k) /\ NextTarget
        /\ \A i \in PrimaryPairs : i < k => Streamed(i)
    BY <1>15 DEF AwaitActive, IInv, WorkInv, Streamed
  <2> QED
    BY <1>15, <2>1, NextTargetWork DEF AwaitActive, vast, fixed
<1>16. CASE AwaitMembers
  <2>1. at = "members" /\ at' = "done" /\ k' = k /\ Members \subseteq visible
    BY <1>16 DEF AwaitMembers
  <2> QED
    BY <1>4, <1>7, <2>1, FixedLinks DEF IInv, WorkInv
<1>17. CASE StatPeerPath
  <2>1. CASE at' = "idle"
    BY <1>17, <2>1, EarlyWork DEF StatPeerPath, vast, fixed
  <2>2. CASE at' = "rmdir" /\ k' = k
    BY <1>4, <1>7, <1>17, <2>2, FixedLinks DEF IInv, WorkInv, StatPeerPath
  <2> QED
    BY <1>17, <2>1, <2>2 DEF StatPeerPath
<1> QED
  BY <1>2, <1>3, <1>8, <1>9, <1>10, <1>11, <1>12, <1>13, <1>14, <1>15, <1>16, <1>17
  DEF Next, Work, Vast, vars, worker, MirrorPolicy, PeerFails, PeerRecovers, MirrorPpath,
      ProgressStream, ClientWrites, AdminClears

-----------------------------------------------------------------------------
(* The theorems.                                                            *)

LEMMA InitInv ==
  ASSUME Init
  PROVE  IInv
<1>1. TopoInv
  BY DEF Init, TopoInv
<1>2. TypeOK
  <2>1. topo \in Seq(SCs \X SCs) /\ topo # <<>>
    BY PpathConstants, <1>1 DEF Init, TopoInv, ValidTopology
  <2>2. Len(topo) \in Nat /\ 1 \in 1..Len(topo) /\ 0 \in 0..MaxFaults
    BY <2>1, PpathConstants
  <2> QED
    BY <2>1, <2>2 DEF Init, TypeOK, StreamStates
<1>3. StreamInv
  BY PrimaryLinks, <1>1, <1>2 DEF Init, StreamInv
<1>4. WorkInv
  BY DEF Init, WorkInv
<1> QED
  BY <1>1, <1>2, <1>3, <1>4 DEF IInv

LEMMA StepInv ==
  ASSUME IInv, [Next]_vars
  PROVE  IInv'
<1>1. StreamInv' /\ UNCHANGED fixed
  BY StreamStep DEF Grows
<1>2. TopoInv'
  BY <1>1, FixedLinks DEF IInv
<1> QED
  BY <1>1, <1>2, TypeStep, WorkStep DEF IInv

\* When the name is stored, every link has its stream: a link from the primary was
\* waited for, a link between two secondaries towards a later target was added
\* with it, and one towards the first target cannot be there, for the other one
\* could not have become active without the standby stream the other way.
LEMMA NamedIsStreamed ==
  ASSUME IInv
  PROVE  EveryLinkStreamed
<1> SUFFICES ASSUME named, NEW e \in Range(Edges)
             PROVE  stream[e] \in {"active", "standby"}
  BY DEF EveryLinkStreamed
<1>1. TypeOK /\ TopoInv /\ StreamInv /\ \A i \in PrimaryPairs : Streamed(i)
  BY DEF IInv, WorkInv
<1>2. PICK j \in DOMAIN topo : e = Edges[j]
  BY <1>1, PrimaryLinks
<1>3. e \in SCs \X SCs /\ e[1] # e[2] /\ e[2] # primary /\ e = <<e[1], e[2]>> /\ primary \in SCs
  BY <1>1, <1>2, Links DEF TypeOK
<1>4. CASE e[1] = primary
  BY <1>1, <1>2, <1>4, PrimaryLinks DEF Streamed
<1>5. CASE e[1] # primary
  <2>1. e[1] \in visible /\ e[2] \in visible
    <3>1. {e[1], e[2]} = {topo[j][1], topo[j][2]}
      BY <1>1, <1>2 DEF Edges
    <3>2. e[1] \in Members /\ e[2] \in Members
      BY <3>1 DEF Members, Clusters
    <3> QED
      BY <3>2 DEF IInv, WorkInv
  <2>2. ASSUME NEW c \in SCs, c \in visible, c # primary
        PROVE  \E i \in PrimaryPairs : c = Edges[i][2]
    <3>1. <<primary, c>> \in SCs \X SCs /\ stream[<<primary, c>>] # "absent"
      BY <1>1, <1>3, <2>2 DEF StreamInv
    <3>2. <<primary, c>> \in Range(Edges)
      BY <1>1, <3>1 DEF StreamInv
    <3>3. PICK i \in DOMAIN topo : <<primary, c>> = Edges[i]
      BY <1>1, <3>2, PrimaryLinks
    <3> QED
      BY <1>1, <3>3, PrimaryLinks
  <2>3. PICK a \in PrimaryPairs : e[1] = Edges[a][2]
    BY <1>3, <1>5, <2>1, <2>2
  <2>4. PICK b \in PrimaryPairs : e[2] = Edges[b][2]
    BY <1>3, <2>1, <2>2
  <2>5. CASE b # First
    <3>1. e \in CrossPairs(Edges[b][2])
      BY <1>5, <2>4 DEF CrossPairs
    <3>2. stream[e] # "absent"
      BY <1>1, <2>5, <3>1 DEF Streamed
    <3> QED
      BY <1>1, <1>3, <1>5, <3>2 DEF StreamInv
  <2>6. CASE b = First
    <3>1. stream[<<primary, e[1]>>] = "active"
      <4>1. stream[Edges[a]] = "active"
        BY <1>1 DEF Streamed
      <4> QED
        BY <1>1, <2>3, <4>1, PrimaryLinks
    <3>2. stream[<<e[2], e[1]>>] = "standby"
      BY <1>1, <1>3, <2>4, <2>6, <3>1 DEF StreamInv
    <3>3. <<e[2], e[1]>> \in Range(Edges)
      BY <1>1, <1>3, <3>2 DEF StreamInv
    <3>4. PICK i \in DOMAIN topo : <<e[2], e[1]>> = Edges[i]
      BY <1>1, <3>3, PrimaryLinks
    <3>5. i # j
      BY <1>2, <1>3, <3>4
    <3> QED
      BY <1>1, <1>2, <1>3, <3>4, <3>5, Links
  <2> QED
    BY <2>5, <2>6
<1> QED
  BY <1>4, <1>5

\* The inductive invariant, for every topology the API server accepts.
THEOREM Inductive == Spec => []IInv
<1>1. Init => IInv
  BY InitInv
<1>2. IInv /\ [Next]_vars => IInv'
  BY StepInv
<1> QED
  BY <1>1, <1>2, PTL DEF Spec

\* The variables keep their types, in particular the index of the link at hand.
THEOREM TypeCorrect == Spec => []TypeOK
<1>1. IInv => TypeOK
  BY DEF IInv
<1> QED
  BY <1>1, Inductive, PTL

\* The strict order of EnsureConstellationPpath: a standby stream exists only when
\* the primary's stream to the same target is waiting for it or active.
THEOREM StandbysFollow == Spec => []StandbyAfterPrimary
<1>1. IInv => StandbyAfterPrimary
  BY PrimaryLinks DEF IInv, StreamInv, StandbyAfterPrimary
<1> QED
  BY <1>1, Inductive, PTL

\* status.ppathName is stored only when every link of the topology has its stream,
\* however often DiscoverLinkPolicies and EnsureConstellationPpath started over.
THEOREM AllLinksStreamed == Spec => []EveryLinkStreamed
<1>1. IInv => EveryLinkStreamed
  BY NamedIsStreamed
<1> QED
  BY <1>1, Inductive, PTL

\* Starting over never restarts a stream that is active.
THEOREM ActiveIsKept == Spec => ActiveStaysActive
<1>1. IInv /\ [Next]_vars =>
        [\A e \in SCs \X SCs : stream[e] = "active" => stream'[e] = "active"]_vars
  BY StreamStep DEF Grows
<1> QED
  BY <1>1, Inductive, PTL DEF Spec, ActiveStaysActive
=============================================================================
