SPECIFICATION Spec
CONSTANTS
  Callers = {c1}
  Sessions = {s1}
  SolveIds = {z1}
  Captures = {k1}
  NoCapture = NoCapture
  MaxAssets = 1
INVARIANT
  AwaitingCanBeAnswered
