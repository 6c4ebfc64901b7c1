--------------------------- MODULE MCHandController ---------------------------
(***************************************************************************)
(* HandController for TLC: joints are interchangeable, and so are limits.  *)
(***************************************************************************)
EXTENDS HandController, TLC

Interchangeable == Permutations(Joints) \cup Permutations(Limits)
=============================================================================
