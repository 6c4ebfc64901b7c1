\* All calls, all failures, two joints, two positions, two grip limits.
SPECIFICATION Spec
CONSTANTS
  Joints = {j1, j2}
  MaxQ = 1
  Limits = {low, high}
  Calls = {"SetTargets", "HoldCurrent", "ApplyGrip", "RefreshPosition",
           "RefreshState", "RefreshForce", "ClearFault"}
  Losses = {"rejected", "lostAck"}
SYMMETRY Interchangeable
INVARIANTS
  TypeOK
  NoTravel
PROPERTIES
  FaultedNotCommanded
  GripLimited
  PortSpec
