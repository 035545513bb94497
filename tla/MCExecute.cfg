SPECIFICATION Spec
CONSTANTS
  Dirs <- SomeDirs
  Subdirs <- SomeSubdirs
  Above <- SomeAbove
  Parents <- SomeParents
  Start = "start"
  Modes = 2
INVARIANTS NoTestAfterFailure   StatusTells
CHECK_DEADLOCK FALSE
