CONSTANTS
  Kind = "VSCR"
  N = 2
  FailoverTypes = {"graceful", "ungraceful"}
  Patient = TRUE
  Repeat = TRUE
  MaxSwitches = 2
  MaxResyncs = 1
  MaxFaults = 1
SPECIFICATION FairSpec
INVARIANT TypeOK
PROPERTIES FailoverCompletes OthersSecondary
CHECK_DEADLOCK FALSE
