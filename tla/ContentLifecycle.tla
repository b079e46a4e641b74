-------------------------- MODULE ContentLifecycle --------------------------
(***************************************************************************)
(* What a replication CR promises about the storage objects made for it, on *)
(* every cluster: they are only ever made on behalf of a record (the VRC)   *)
(* that outlives them, a record is closed only after it was sealed, nothing *)
(* is made behind a seal, and the CR ends only when nothing is left, after  *)
(* which nothing is made any more.                                          *)
(***************************************************************************)
CONSTANT Clusters

VARIABLES owner,   \* the CR: live, terminating or gone
          record,  \* per cluster: absent, open or sealed
          held     \* clusters on which storage objects exist

lifeVars == <<owner, record, held>>

Init ==
  /\ owner = "live"
  /\ record = [c \in Clusters |-> "absent"]
  /\ held = {}

Open(c) ==
  /\ record[c] = "absent"
  /\ record' = [record EXCEPT ![c] = "open"]
  /\ UNCHANGED <<owner, held>>

Make(c) ==
  /\ record[c] = "open" /\ owner # "gone"
  /\ held' = held \cup {c}
  /\ UNCHANGED <<owner, record>>

Remove(c) ==
  /\ record[c] = "open"
  /\ held' = held \ {c}
  /\ UNCHANGED <<owner, record>>

Seal(c) ==
  /\ record[c] = "open" /\ c \notin held
  /\ record' = [record EXCEPT ![c] = "sealed"]
  /\ UNCHANGED <<owner, held>>

Close(c) ==
  /\ record[c] = "sealed"
  /\ record' = [record EXCEPT ![c] = "absent"]
  /\ UNCHANGED <<owner, held>>

Delete ==
  /\ owner = "live"
  /\ owner' = "terminating"
  /\ UNCHANGED <<record, held>>

End ==
  /\ owner # "gone" /\ held = {}
  /\ owner' = "gone"
  /\ UNCHANGED <<record, held>>

Next ==
  \/ Delete \/ End
  \/ \E c \in Clusters : Open(c) \/ Make(c) \/ Remove(c) \/ Seal(c) \/ Close(c)

Spec == Init /\ [][Next]_lifeVars
=============================================================================
