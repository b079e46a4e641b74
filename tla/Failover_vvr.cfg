CONSTANTS
  Kind = "VVR"
  N = 3
  FailoverTypes = {"graceful", "ungraceful"}
  Patient = TRUE
  Repeat = FALSE
  MaxSwitches = 3
  MaxResyncs = 0
  MaxFaults = 2
SPECIFICATION FairSpec
INVARIANT CompletedIsTrue
PROPERTIES FailoverCompletes SplitBrainResolved DemotionLeavesSource WantedStaysSource
CHECK_DEADLOCK FALSE
