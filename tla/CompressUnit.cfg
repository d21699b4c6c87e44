SPECIFICATION Spec
CONSTANTS
  Trait <- MCTrait
  Batches <- MCBatches
  Store = FALSE
  SkipAlreadyCompressed = TRUE
  NativeHandles = {"null", "live"}
  SpillThreshold = 5
  MmapThresholds = {7}
  SniffMinInput = 3
  SniffSample = 2
  FaultSets = {{"map"}, {"map", "archive"}, {"read", "spill", "rewrite"}}
INVARIANTS
  ArchivedFaithfully
  BatchIndependent
  NoSpuriousFailure
  FilesDisposed
