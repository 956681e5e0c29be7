SPECIFICATION Spec
CONSTANTS
  Callers = {c1}
  Sessions = {s1}
  Captures = {k1}
  NoCaller = NoCaller
  NoCapture = NoCapture
INVARIANT
  FailedWriteLeavesFile
