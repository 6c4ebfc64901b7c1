\* One hand, two RPC threads, every call, no failure.
SPECIFICATION Spec
CONSTANTS
  Hands = {"right"}
  Workers = {w1, w2}
  NoWorker = none
  DdsTimeout = 2
  Maintenance = 3
  PoseMargin = 3
  RpcTimeouts = {1, 2}
  MaxDelay = 1
  Calls <- AllCalls
  Faults = {}
  HoldFaults = {}
  Prompt = TRUE
SYMMETRY WorkerSymmetry
INVARIANTS
  NoStaleDds
