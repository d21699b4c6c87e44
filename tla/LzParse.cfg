SPECIFICATION Spec
CONSTANTS
  Window = 16
  Hashes <- MCHashes
  lz_hash <- MCHash
  Junk <- MCJunk
  MinBlock = 7
  SoftMaxBlock = 24
  FastSoftMaxBlock = 15
  ObservationsPerCheck = 5
  ShortBlock = 12
  Literals <- MCLiterals
  MaxMatch = 8
  Texts <- MCTexts
  Levels <- MCLevels
  SeqStore = 4
  FastSeqStore = 3
  GreedyFar = 6
  LazyFar = 9
  RecalcAfter = 8
  MaxOffset = 16
  MakeCodes <- MCMakeCodes
  Unreachable = 100000000
  Infinite = 1000000000
  CacheLength = 42
INVARIANTS
  MatchesBest
  BlocksFaithful
  PathMinimal
