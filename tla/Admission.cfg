CONSTANTS
  VSCRs = {"a", "b"}
  VVRs = {"v"}
  Uses <- MCUses
  Given <- MCGiven
  None = None
  MaxCreates = 2
  MaxEdits = 1
  MaxFaults = 1
SPECIFICATION Spec
INVARIANTS OneOwner EditsKept
PROPERTY DeletionUnblocked
CHECK_DEADLOCK FALSE
