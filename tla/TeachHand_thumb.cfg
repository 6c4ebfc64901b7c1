\* Both thumb joints under arbitration.
SPECIFICATION Spec
CONSTANTS
  MaxQ = 1
  Joints = {bend, rotation}
  Bend = bend
  Rotation = rotation
  Nobody = nobody
  Config <- ThumbConfig
  DominanceRatio = 2
  ThumbEngageSamples = 2
  Arbitration = TRUE
  Forces <- FewForces
SYMMETRY ThumbSymmetry
CHECK_DEADLOCK FALSE
INVARIANTS
  TypeOK
  QuietForces
  PendingWaits
  LockGivenBack
PROPERTIES
  OnlyOwnerSteps
  NoImmediateReversal
