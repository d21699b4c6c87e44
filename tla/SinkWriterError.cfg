SPECIFICATION Spec
CONSTANTS
  Inputs <- MCShortInputs
  Threads = 2
  Store = FALSE
  NativeAvailable = TRUE
  Faults = {"error"}
  MiB = 2
  MaxMemory = 48
  MinBudgetMiB = 3
  MaxBudgetMiB = 8
  SpillThreshold = 3
  MmapThreshold = 6
  BatchableMaxEntryBytes = 1
  BatchMaxEntries = 2
  BatchMaxBytes = 4
INVARIANTS
  SuccessIsComplete
CHECK_DEADLOCK FALSE
