\* One field of two values, the page open or loaded again, every kind of request,
\* a service and a server that may die, and stores that may fail.
SPECIFICATION FairSpec
CONSTANTS
  Absent = Absent
  Torn = Torn
  StoreFaults = {"write", "rename"}
  Settings <- FieldSettings
  Defaults <- LowSettings
  Read = read
  Fields = {"threshold"}
  Values = {0, 1}
  Others = {"command", "grip", "clearFault", "executePose", "listPoses", "registers", "savePose", "changePose"}
  OtherSettings <- HighSettings
  NetFaults = {"slow"}
  MaxRequests = 2
  MaxOthers = 1
INVARIANTS
  TypeOK
  SavedIsStored
PROPERTIES
  SavingEnds
  MovesAuthorised
