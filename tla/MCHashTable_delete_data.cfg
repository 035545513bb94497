CONSTANTS
  Threads = {t1}
  k1 = k1
  k2 = k2
  Keys = {k1, k2}
  Data = {d1, d2}
  NumEnts = 2
  Hash <- OneBucket
  MaxSlabs = 1
  MaxCalls = 3
  Ops = {"insert", "delete"}
  DupsAllowed = FALSE
  Modulus = 65536
  None = None
SPECIFICATION Spec
INVARIANT DeleteReturnsItsData
CHECK_DEADLOCK FALSE
