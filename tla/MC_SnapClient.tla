---------------------------- MODULE MC_SnapClient ---------------------------
(***************************************************************************)
(* SnapClient for TLC.                                                     *)
(***************************************************************************)
EXTENDS SnapClient, TLC

Symmetry == Permutations(Callers) \cup Permutations(Sessions)
            \cup Permutations(Captures) \cup Permutations(Photos)
=============================================================================
