---------------------------- MODULE MCPoseStore ----------------------------
(***************************************************************************)
(* PoseStore for TLC: one id that clients name, which the service may also *)
(* come up with, and two threads.                                          *)
(***************************************************************************)
EXTENDS PoseStore, TLC

WorkerSymmetry == Permutations(Workers)

OneClientId == {<<1, 1>>}
=============================================================================
