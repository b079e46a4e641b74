CONSTANTS
  N = 2
  Primary = 1
  ManualDelete = {}
  PpathLossy = FALSE
  Kinds = {"VSCR", "VVR"}
  MaxFaults = 1
SPECIFICATION Spec
INVARIANT NoWedgedVGR
PROPERTY DeletionCompletes
CHECK_DEADLOCK FALSE
