CONSTANTS
  Names = {n1, n2}
  MaxBuckets = 2
  MaxChanges = 2
  MaxFaults = 1
  MaxEvents = 2
SPECIFICATION FairSpec
INVARIANTS TypeOK FlatSettled
PROPERTIES ForeignKept GrantConverges FlatConverges
CHECK_DEADLOCK FALSE
