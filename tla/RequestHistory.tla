--------------------------- MODULE RequestHistory ---------------------------
(***************************************************************************)
(* The request history of api.Client: what it holds after one more round   *)
(* trip, and the order in which the history panel shows and counts it.     *)
(***************************************************************************)
EXTENDS Naturals, SequencesExt

CONSTANT MaxHistory   \* maxHistoryEntries

ASSUME MaxHistoryAssumption == MaxHistory \in Nat \ {0}

\* Broken: an entry too few is dropped.
RecordedOneOver(h, e) ==
  LET g == Append(h, e)
  IN IF Len(g) > MaxHistory THEN SubSeq(g, Len(g) - MaxHistory, Len(g)) ELSE g

\* recordHistory: append, and drop what is over the limit from the old end.
Recorded(h, e) ==
  LET g == Append(h, e)
  IN IF Len(g) > MaxHistory THEN SubSeq(g, Len(g) - MaxHistory + 1, Len(g)) ELSE g

EntriesNewestFirst(h) == Reverse(h)
=============================================================================
