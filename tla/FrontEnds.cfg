SPECIFICATION Spec
CONSTANTS
  SourceLists <- MCSourceLists
  CopyWalks <- MCCopyWalks
  SpillThreshold = 2
  Chunk = 2
  FaultSets <- MCFaultSets
INVARIANTS
  EntriesListed
  MaterializedFaithfully
  AttributesReadBack
  SpillDirGone
  NoStrayFailure
