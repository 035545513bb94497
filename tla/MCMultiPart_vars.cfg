SPECIFICATION FairSpec
CONSTANTS
  plain = plain
  assign = assign
  p1 = p1
  p2 = p2
  l1 = l1
  l2 = l2
  v1 = v1
  Parts = {p1, p2}
  CParts = {p2}
  SyncLabels = {l1, l2}
  Vars = {v1}
  Values = {plain, assign}
  BeforeEq <- CutAssign
  Codes = {"PASS", "FAIL"}
  MaxCalls = 2
  ExitOnError = TRUE
  None = None
INVARIANTS TypeOK SetBeforeSync SetIsAnswered EofMeansFailure
PROPERTIES GetAnswered LaunchEnds
CHECK_DEADLOCK FALSE
