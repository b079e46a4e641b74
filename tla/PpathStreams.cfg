CONSTANTS
  N = 3
  Topologies <- MCTopologies
  Cleanup = TRUE
  Writers = TRUE
  MaxFaults = 2
SPECIFICATION FairSpec
INVARIANTS EveryLinkStreamed StandbyAfterPrimary
PROPERTIES ActiveStaysActive SetupCompletes
CHECK_DEADLOCK FALSE
