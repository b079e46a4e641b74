CONSTANTS
  Procs = {p1, p2, p3}
  Keys = {k1}
  Objects = {o1, o2, o3, o4}
  None = None
SPECIFICATION LockSpec
INVARIANT MutualExclusion
