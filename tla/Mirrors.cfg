CONSTANTS
  SCs = {a, b}
  Primary = a
  Vols = {p1}
  Kinds = {"file", "block"}
  Policies = {"Retain", "Delete"}
  MaxFaults = 1
SPECIFICATION Spec
INVARIANTS RecursionOnlyAfterLoss
PROPERTIES MirrorOutlivesSource MirrorsConverge
CHECK_DEADLOCK FALSE
