SPECIFICATION Spec
CONSTANTS
  Codes <- MCCodes
  LensSyms = 6
  LensMax = 4
  LensTableBits = {2, 3}
  RunLens = {0, 5, 7}
  RunLengths <- MCRunLengths
  MaxRuns = 2
INVARIANTS
  CodesComplete
  CodesOptimal
  TablesDecode
  LensJudged
  ItemsReadBack
CHECK_DEADLOCK FALSE
