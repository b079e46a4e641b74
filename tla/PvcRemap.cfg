CONSTANTS
  SCs = {a, b, c}
  Home = a
  Workloads = {w, p}
  Standalone = {p}
  Kinds = {"VSCR", "VVR"}
  MaxFailovers = 2
  MaxFaults = 1
SPECIFICATION FairSpec
INVARIANTS SettledIsRemapped
PROPERTIES PodsConverge
CHECK_DEADLOCK FALSE
