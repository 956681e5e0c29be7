---------------------------- MODULE SnapRecords -----------------------------
(***************************************************************************)
(* What the server may assume of the Snap & Solve session store: what the  *)
(* callers have been told of each session, and what a restart would find,  *)
(* with no mutex and no system call in sight.                              *)
(*                                                                         *)
(* It stands between the store and the server.  SnapStore implements it,   *)
(* call by call and write by write; TutiServer takes each call of the      *)
(* store as one of its steps.                                              *)
(***************************************************************************)
EXTENDS SnapRecord

VARIABLES
  view,      \* the record each session is at, as the callers know it
  durable,   \* the record the session's file was last completely written with
  torn,      \* the sessions whose file does not decode since
  serving    \* whether the process takes calls

vars == <<view, durable, torn, serving>>

Init ==
  /\ view = [s \in Sessions |-> NoSession]
  /\ durable = [s \in Sessions |-> NoSession]
  /\ torn = {}
  /\ serving = FALSE

\* The next record of a session is on disk, and nobody has been told of it: its
\* call is still under way, or has failed.
Save(s, r) ==
  /\ serving
  /\ Advances(view[s], r)
  /\ durable' = [durable EXCEPT ![s] = r]
  /\ torn' = torn \ {s}
  /\ UNCHANGED <<view, serving>>

\* The file is emptied for the next record, which has not got there yet, or never
\* will.
Tear(s, r) ==
  /\ serving
  /\ Advances(view[s], r)
  /\ torn' = torn \cup {s}
  /\ UNCHANGED <<view, durable, serving>>

\* A call returns: what it tells its caller is on disk.
Move(s, r) ==
  /\ serving
  /\ Advances(view[s], r)
  /\ durable' = [durable EXCEPT ![s] = r]
  /\ torn' = torn \ {s}
  /\ view' = [view EXCEPT ![s] = r]
  /\ UNCHANGED serving

\* The process stops, by a crash or on purpose.
Stop ==
  /\ serving
  /\ serving' = FALSE
  /\ UNCHANGED <<view, durable, torn>>

\* The process is back, and goes by the files, all of which it can read.
Start ==
  /\ ~serving
  /\ torn = {}
  /\ serving' = TRUE
  /\ view' = durable
  /\ UNCHANGED <<durable, torn>>

Next ==
  \/ \E s \in Sessions : \E r \in Record : Save(s, r) \/ Tear(s, r) \/ Move(s, r)
  \/ Stop \/ Start

Spec == Init /\ [][Next]_vars
=============================================================================
