------------------------------ MODULE SnapFlow ------------------------------
(***************************************************************************)
(* What the Snap & Solve session store promises its callers, with no file, *)
(* mutex or goroutine in sight: while the service runs, one session at a   *)
(* time moves one step along the flow; a restart may complete the step a   *)
(* session was in the middle of, but takes no session back, skips no step  *)
(* and swaps no photo.                                                     *)
(***************************************************************************)
EXTENDS SnapRecord

VARIABLES
  flow,      \* the record each session is at, as its callers see it
  serving    \* whether the service answers calls

vars == <<flow, serving>>

Init ==
  /\ flow = [s \in Sessions |-> NoSession]
  /\ serving = FALSE

\* One call takes effect.
Advance(s) ==
  /\ serving
  /\ flow' \in [Sessions -> Record]
  /\ Advances(flow[s], flow'[s])
  /\ \A t \in Sessions \ {s} : flow'[t] = flow[t]
  /\ UNCHANGED serving

\* The process stops, by a crash or on purpose.
Stop ==
  /\ serving
  /\ serving' = FALSE
  /\ UNCHANGED flow

\* The process is back.  A call cut short by the stop may have taken effect.
Resume ==
  /\ ~serving
  /\ serving' = TRUE
  /\ flow' \in [Sessions -> Record]
  /\ \A s \in Sessions : flow'[s] = flow[s] \/ Advances(flow[s], flow'[s])

Next == (\E s \in Sessions : Advance(s)) \/ Stop \/ Resume

Spec == Init /\ [][Next]_vars
=============================================================================
