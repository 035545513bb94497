CONSTANTS
  Threads = {t1, t2}
  k1 = k1
  k2 = k2
  Keys = {k1, k2, k3, k4}
  Data = {d1}
  NumEnts = 2
  Hash <- TwoBuckets
  MaxSlabs = 1
  MaxCalls = 2
  Ops = {"locate", "insert"}
  DupsAllowed = FALSE
  Modulus = 65536
  None = None
SPECIFICATION FairSpec
INVARIANTS
  TypeOK
  KeysUnique
  NoLocksAtReturn
  FreeCountIsLength
PROPERTIES CallsReturn Linearizable
CHECK_DEADLOCK FALSE
