\* Two requests at a time over three captures, with failed writes and restarts.
SPECIFICATION Spec
CONSTANTS
  Callers = {c1, c2}
  Captures = {k1, k2, k3}
  NoCapture = NoCapture
SYMMETRY Symmetry
INVARIANTS
  IndInv
  ListsWhatWasAnswered
  ListsNewestFirst
PROPERTY ShelfSpec
