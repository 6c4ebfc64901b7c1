----------------------------- MODULE MCTeachHand -----------------------------
(***************************************************************************)
(* TeachHand for TLC: the two thumb joints, each with one step to take.    *)
(* With a dominance ratio above 1 they cannot both dominate, and as they   *)
(* are configured alike they are interchangeable.                          *)
(***************************************************************************)
EXTENDS TeachHand, TLC

ThumbConfig ==
  [j \in Joints |->
     [closeDelta |-> 1, openDelta |-> 1, openFloor |-> 1,
      filterSamples |-> 3, engageSamples |-> 1, releaseSamples |-> 2,
      step |-> 1, maximumTravel |-> 1, baselineAdaptStep |-> 1,
      baselineSlope |-> 0, oppositeReleases |-> TRUE]]
ThumbSymmetry == Permutations(Thumb)
FewForces == {-2, 0, 2}
=============================================================================
