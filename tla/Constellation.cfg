CONSTANTS
  N = 2
  Primary = 1
  ManualDelete = {1}
  PpathLossy = TRUE
  Kinds = {"VVR"}
  MaxFaults = 1
SPECIFICATION Spec
INVARIANTS NoOrphanResources CleanedIsClean NoResourcesAfterVSCR ClassesNamed
PROPERTY ImplementsLifecycle
CHECK_DEADLOCK FALSE
