SPECIFICATION FairSpec
CONSTANTS
  MAXCHAR = 2
  TagLen = 1
  Slack = 2
  MaxChars = 4
INVARIANTS TypeOK NothingLost InOrder LineEnded
PROPERTIES ContextEnds
CHECK_DEADLOCK FALSE
