----------------------------- MODULE SnapRecord -----------------------------
(***************************************************************************)
(* The record of one Snap & Solve session, as internal/session keeps it in *)
(* memory and internal/session/filestore keeps it on disk: the step of the *)
(* flow the session is at and the capture it is about.  CreatedAt is left  *)
(* out: nothing reads it.                                                  *)
(***************************************************************************)
CONSTANTS
  Sessions,   \* session ids that newID("snap_") can draw
  Captures,   \* ids of stored captures
  NoCapture   \* the empty CaptureID

ASSUME NoCaptureAssumption == NoCapture \notin Captures

\* snapStep (stepAwaitSnap, stepAwaitResponse, stepDone), and "none" for an id
\* that the map, or the directory, does not hold.
Steps == {"none", "awaitSnap", "awaitResponse", "done"}

\* snapSession: Step and CaptureID.
Record == [step : Steps, capture : Captures \cup {NoCapture}]

NoSession == [step |-> "none", capture |-> NoCapture]

\* What Init builds, what SubmitSnap builds, and what SubmitResponse builds
\* out of the record it finds.
Opened       == [step |-> "awaitSnap", capture |-> NoCapture]
Submitted(k) == [step |-> "awaitResponse", capture |-> k]
Finished(r)  == [step |-> "done", capture |-> r.capture]

\* The only changes of a session the flow knows: opened, given its photo, and
\* answered with the photo it was given.
Advances(old, new) ==
  \/ old = NoSession /\ new = Opened
  \/ old = Opened /\ \E k \in Captures : new = Submitted(k)
  \/ \E k \in Captures : old = Submitted(k) /\ new = Finished(old)
=============================================================================
