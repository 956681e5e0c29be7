SPECIFICATION ClientSpec
CONSTANTS
  Callers = {c1, c2}
  Sessions = {s1, s2}
  Captures = {k1, k2, k3}
  NoCapture = NoCapture
  Photos = {p1, p2}
  NoSessionID = NoSessionID
  MaxCalls = 4
  SolveIds = {}
  MaxAssets = 0
SYMMETRY Symmetry
INVARIANTS
  SnapAnswersStayTrue
  ResponseConflictHasCause
  NeverNotFound
  AnalysisIsOfOwnPhoto
