SPECIFICATION FairSpec
CONSTANTS
  Commands <- MenuCommands
  MaxHistory = 2
  MaxCalls = 3
CHECK_DEADLOCK FALSE
INVARIANTS
  IndInv
  OneCallAtATime
  InFlightIsCurrent
  SelectionsExist
  KeysReachShownField
  PanelIsCurrent
PROPERTY
  WithDeadlineEnds
