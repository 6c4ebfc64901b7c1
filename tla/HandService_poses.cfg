\* Poses over both hands against RPC targets and Hold, with refused writes and lost acknowledgements.
SPECIFICATION Spec
CONSTANTS
  Hands = {"right", "left"}
  Workers = {w1, w2}
  NoWorker = none
  DdsTimeout = 1
  Maintenance = 2
  PoseMargin = 1
  RpcTimeouts = {1}
  MaxDelay = 1
  Calls <- PoseCalls
  Faults = {"rejected", "lostAck"}
  HoldFaults = {}
  Prompt = TRUE
SYMMETRY WorkerSymmetry
INVARIANTS
  PoseNotCutShort
  FailedPoseStops
  ControlExclusion
