CONSTANTS
  Threads = {t1, t2}
  k1 = k1
  k2 = k2
  Keys = {k1, k2, k3, k4}
  Data = {d1}
  NumEnts = 3
  Hash <- OneBucket
  MaxSlabs = 1
  MaxCalls = 3
  Ops = {"locate", "insert", "delete"}
  DupsAllowed = FALSE
  Modulus = 65536
  None = None
SPECIFICATION Spec
INVARIANTS
  IInv
  LocksHeld
  DisjointChains
SYMMETRY Symmetry
CHECK_DEADLOCK FALSE
