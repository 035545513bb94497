SPECIFICATION Spec
CONSTANTS
  Threads = {t1, t2}
  Groups = {g1, g2}
  None = None
  IntMax = 15
  Levels <- SomeLevels
  Environment <- SomeEnvironment
  jnlBI_MAX = 2
  MaxCalls = 2
INVARIANTS InsertsAreNew NothingLeaked PartsAreOwn WholeMessage SearchesEnd
CHECK_DEADLOCK FALSE
