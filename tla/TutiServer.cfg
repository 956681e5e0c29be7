SPECIFICATION FairSpec
CONSTANTS
  Callers = {c1, c2}
  Sessions = {s1}
  SolveIds = {z1}
  Captures = {k1, k2}
  NoCapture = NoCapture
  MaxAssets = 1
INVARIANTS
  IndInv
  SessionPhotoStored
  AcceptedPhotoKept
  AnalysedOnce
  OpenedIsKnown
PROPERTIES
  StoresSpec
  DrainEnds
  HandlersEnd
