-------------------------- MODULE MC_CaptureStore ---------------------------
(***************************************************************************)
(* CaptureStore for TLC.                                                   *)
(***************************************************************************)
EXTENDS CaptureStore, TLC

Symmetry == Permutations(Callers) \cup Permutations(Captures)
=============================================================================
