---------------------------- MODULE MC_HttpEdge -----------------------------
(***************************************************************************)
(* HttpEdge for TLC: two English topics of the catalog, one of them        *)
(* without practice problems, and one Spanish one; every kind of block and *)
(* one the code does not know; two difficulties it knows and one not; two  *)
(* types the providers take, one they do not and none.  The developer      *)
(* route is open for one backend and closed for the other, and one         *)
(* environment names a backend that does not exist.                        *)
(***************************************************************************)
EXTENDS HttpEdge

SomeWords        == {"geometry", "calculus", "geometry_es"}
SomeKinds        == {"text", "math", "hint", "diagram"}
SomeDifficulties == {"easy", "hard", "impossible"}
SomeSniffed      == {"image/jpeg", "image/webp", "image/bmp", "application/octet-stream"}
SomeExtensions   == {".jpg", ".png", ".heic", ""}
SomeEnvironments ==
  {[ANALYSIS_BACKEND |-> "", DEV_MODE |-> "1"],
   [ANALYSIS_BACKEND |-> "anthropic", DEV_MODE |-> "yes"],
   [ANALYSIS_BACKEND |-> "gemini", DEV_MODE |-> "true"]}
=============================================================================
