\* One hand, two RPC threads, every call, no failure; writes follow their
\* decision within a clock unit.
SPECIFICATION FairSpec
CONSTANTS
  Hands = {"right"}
  Workers = {w1, w2}
  NoWorker = none
  DdsTimeout = 1
  Maintenance = 2
  PoseMargin = 1
  RpcTimeouts = {1}
  MaxDelay = 1
  Calls <- AllCalls
  Faults = {}
  HoldFaults = {}
  Prompt = TRUE
INVARIANTS
  TypeOK
  MotionCovered
  ContactQuiet
  AtMostOneStaleDds
  ExitStopsDds
PROPERTIES
  Settles
  RequestsEnd
  SignalExits
