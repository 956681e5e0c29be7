\* Two goroutines on two sessions and two photos, with failed writes, crashes
\* and restarts, under the fairness of the scheduler and the mutex, and with the
\* record of what each file last held whole.
SPECIFICATION FairRecordedSpec
CONSTANTS
  Callers = {c1, c2}
  Sessions = {s1, s2}
  Captures = {k1, k2}
  NoCaller = NoCaller
  NoCapture = NoCapture
INVARIANTS
  IndInv
  AnalysedAtMostOnce
PROPERTIES
  RecordsSpec
  FlowSpec
  CallReturns
