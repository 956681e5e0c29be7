SPECIFICATION Spec
CONSTANTS
  Commands = {"health"}
  MaxHistory = 2
  MaxCalls = 1
CHECK_DEADLOCK FALSE
INVARIANT
  ShownIsReplayed
