SPECIFICATION Spec
CONSTANTS
  plain = plain
  assign = assign
  p1 = p1
  p2 = p2
  p3 = p3
  l1 = l1
  l2 = l2
  Parts = {p1, p2, p3}
  CParts = {}
  SyncLabels = {l1, l2}
  Vars = {}
  Values = {}
  BeforeEq <- CutAssign
  Codes = {"PASS", "FAIL"}
  MaxCalls = 2
  ExitOnError = FALSE
  None = None
SYMMETRY Symmetry
INVARIANT VerdictCoversAll
PROPERTIES BarrierStep
CHECK_DEADLOCK FALSE
