SPECIFICATION FairSpec
CONSTANTS
  Inputs <- MCInputs
  Threads = 2
  Store = FALSE
  NativeAvailable = TRUE
  Faults = {"task", "alloc"}
  MiB = 2
  MaxMemory = 48
  MinBudgetMiB = 3
  MaxBudgetMiB = 8
  SpillThreshold = 3
  MmapThreshold = 6
  BatchableMaxEntryBytes = 1
  BatchMaxEntries = 2
  BatchMaxBytes = 4
INVARIANTS
  HandleNotFreedInUse
  NothingLeftBehind
PROPERTIES
  FailureStopsArchive
  ImplementsOrderedArchive
  Termination
