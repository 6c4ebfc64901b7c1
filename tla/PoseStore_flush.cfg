\* As store, but what fails is the flush of the temporary file.
SPECIFICATION Spec
CONSTANTS
  Absent = Absent
  Torn = Torn
  StoreFaults = {"flush"}
  Workers = {w1, w2}
  NoWorker = none
  Times = {1}
  ClientIds <- OneClientId
  Names = {"a", "b"}
  Delays = {0, 300}
  MaxPoses = 2
  MaxCounter = 2
SYMMETRY WorkerSymmetry
INVARIANT
  Persisted
