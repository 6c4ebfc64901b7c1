\* Crashes, errors of the write and of the rename.
SPECIFICATION Spec
CONSTANTS
  Absent = Absent
  Torn = Torn
  StoreFaults = {"write", "rename"}
  Workers = {w1, w2}
  NoWorker = none
  Times = {1}
  ClientIds <- OneClientId
  Names = {"a", "b"}
  Delays = {0, 300}
  MaxPoses = 2
  MaxCounter = 2
SYMMETRY WorkerSymmetry
INVARIANTS
  TypeOK
  Persisted
  UniqueIds
PROPERTY
  LibrarySpec
