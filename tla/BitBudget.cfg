SPECIFICATION Spec
\* A small output buffer, the shortest and the longest match, an offset for
\* every way to copy a match, and the offsets at both ends of every slot.
CONSTANTS
  Space = 19
  Costs = {37, 80, 131}
  CopyOffsets = {1, 2, 3, 5, 7, 8, 100}
  Lens = {3, 258}
  Offsets = {1, 2, 3, 4, 5, 6, 7, 8, 9, 12, 13, 16, 17, 24, 25, 32, 33, 48,
             49, 64, 65, 96, 97, 128, 129, 192, 193, 256, 257, 384, 385, 512,
             513, 768, 769, 1024, 1025, 1536, 1537, 2048, 2049, 3072, 3073,
             4096, 4097, 6144, 6145, 8192, 8193, 12288, 12289, 16384, 16385,
             24576, 24577, 32768}
INVARIANTS
  NoBitLost
  StoresWithinOutput
  ReaderWithinMargins
  MatchesReadBack
CHECK_DEADLOCK FALSE
