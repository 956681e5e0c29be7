---------------------------- MODULE CaptureShelf ----------------------------
(***************************************************************************)
(* What the server may assume of the capture store: which captures have    *)
(* all their bytes on disk, and which ones a look-up finds.  Bytes stay    *)
(* for good; what a look-up finds was stored before, and is forgotten when *)
(* the process ends.                                                       *)
(***************************************************************************)
CONSTANT Captures

VARIABLES
  stored,    \* captures whose bytes are on disk
  indexed,   \* captures the map holds
  serving    \* whether the process takes requests

vars == <<stored, indexed, serving>>

Init == stored = {} /\ indexed = {} /\ serving = FALSE

\* The bytes of a capture are complete.
Keep(k) ==
  /\ serving
  /\ stored' = stored \cup {k}
  /\ UNCHANGED <<indexed, serving>>

\* A capture on disk can be looked up.
Add(k) ==
  /\ serving /\ k \in stored
  /\ indexed' = indexed \cup {k}
  /\ UNCHANGED <<stored, serving>>

Stop ==
  /\ serving
  /\ serving' = FALSE
  /\ indexed' = {}
  /\ UNCHANGED stored

Start ==
  /\ ~serving
  /\ serving' = TRUE
  /\ UNCHANGED <<stored, indexed>>

Next == (\E k \in Captures : Keep(k) \/ Add(k)) \/ Stop \/ Start

Spec == Init /\ [][Next]_vars
=============================================================================
