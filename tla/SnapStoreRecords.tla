-------------------------- MODULE SnapStoreRecords --------------------------
(***************************************************************************)
(* SnapStore with a history variable: the record that the file of each     *)
(* session was last completely written with, which a file that is torn     *)
(* does not tell any more.  With it the store implements SnapRecords, the  *)
(* view that the server has of it.                                         *)
(***************************************************************************)
EXTENDS SnapStore

VARIABLE durable   \* history: the last whole content of each file

\* Every step of the store goes with what it leaves of the files.
Follow ==
  durable' = [s \in Sessions |-> IF disk'[s] = Torn THEN durable[s] ELSE disk'[s]]

RecordedInit == Init /\ durable = [s \in Sessions |-> NoSession]

RecordedSpec == RecordedInit /\ [][Next /\ Follow]_<<vars, durable>>

\* The same under the fairness of SnapStore, which the history variable does not
\* touch.
FairRecordedSpec == RecordedSpec /\ Fairness

\* A file that is not torn is what it was last written with.
DurableIsWhole == \A s \in Sessions : disk[s] # Torn => durable[s] = disk[s]

TornFiles == {s \in Sessions : disk[s] = Torn}

\* A call takes effect for the server when the store commits it; a write that
\* is lost on the way leaves the file as it was, torn, or one step ahead.
Records == INSTANCE SnapRecords WITH serving <- (phase = "up"), torn <- TornFiles

RecordsSpec == Records!Spec
=============================================================================
