SPECIFICATION Spec
CONSTANTS
  Threads = {t1, t2}
  None = None
  Keys = {1, 2, 3}
  Sizes = {1, 2}
  MaxTables = 3
  MaxCalls = 3
INVARIANT NoStalePointers
CHECK_DEADLOCK FALSE
