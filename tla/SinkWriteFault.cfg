SPECIFICATION FairSpec
CONSTANTS
  Inputs <- MCManyUnits
  Threads = 1
  Store = FALSE
  NativeAvailable = TRUE
  Faults = {"write"}
  MiB = 2
  MaxMemory = 48
  MinBudgetMiB = 3
  MaxBudgetMiB = 8
  SpillThreshold = 3
  MmapThreshold = 6
  BatchableMaxEntryBytes = 1
  BatchMaxEntries = 2
  BatchMaxBytes = 4
PROPERTIES
  Termination
CHECK_DEADLOCK FALSE
