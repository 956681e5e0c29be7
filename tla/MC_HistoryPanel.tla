-------------------------- MODULE MC_HistoryPanel --------------------------
(***************************************************************************)
(* HistoryPanel for TLC.  The viewports of the three windows have 5, 6 and *)
(* 11 lines; selected, the shorter entry has 6 and the taller one 13.      *)
(***************************************************************************)
EXTENDS HistoryPanel

Entries == {[request |-> 1, response |-> 1], [request |-> 4, response |-> 5]}

WindowHeights == {10, 24, 36}
=============================================================================
