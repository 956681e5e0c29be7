---------------------------- MODULE MC_Terminal -----------------------------
(***************************************************************************)
(* Terminal for TLC: commands of every kind, without parameters, with a    *)
(* file, a choice and two texts, with and without a deadline.              *)
(***************************************************************************)
EXTENDS Terminal

MenuCommands == {"health", "init", "snap", "respond", "lesson", "clear"}
=============================================================================
