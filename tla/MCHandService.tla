--------------------------- MODULE MCHandService ---------------------------
(***************************************************************************)
(* HandService for TLC.  The RPC threads are interchangeable; the hands    *)
(* are not, since every loop of the service takes right before left.       *)
(***************************************************************************)
EXTENDS HandService, TLC

WorkerSymmetry == Permutations(Workers)

\* Sets of calls for the .cfg files.
AllCalls == CallKinds
PoseCalls == {"SetTargets", "ExecutePose", "Hold"}
=============================================================================
