SPECIFICATION FairSpec
CONSTANTS
  NumCases = 2
  Codes = {1}
  Deaths = {139}
  Garbage <- SomeGarbage
  Stubborn = {"bg"}
  SuspendFlags = {TRUE, FALSE}
  MaxEntries = 1
  MaxOnExit = 2
  None = None
INVARIANTS VerdictTrue NoOrphans AssertionsBelong CleanupOnce
PROPERTIES WatchEnds
CHECK_DEADLOCK FALSE
