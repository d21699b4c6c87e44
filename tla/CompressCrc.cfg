SPECIFICATION Spec
CONSTANTS
  Trait <- MCTrait
  Batches <- MCBatches
  Store = FALSE
  SkipAlreadyCompressed = TRUE
  NativeHandles = {"live"}
  SpillThreshold = 5
  MmapThresholds = {5, 9}
  SniffMinInput = 3
  SniffSample = 2
  FaultSets = {{"pin", "malloc"}}
INVARIANT CrcAlwaysFilledIn
