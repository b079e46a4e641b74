CONSTANTS
  Clusters = {"p", "s"}
  Primary = "p"
  PVCs = {"v"}
  MaxFaults = 1
SPECIFICATION FairSpec
INVARIANTS NoSnapshotLeft NoVolumeLeft NoPolicyLeft
PROPERTIES TeardownCompletes CleanupKeepsLifecycle
CHECK_DEADLOCK FALSE
