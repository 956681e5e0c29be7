SPECIFICATION Spec
CONSTANTS
  Callers = {c1}
  Captures = {k1}
  NoCapture = NoCapture
INVARIANT
  ListsAllUploads
