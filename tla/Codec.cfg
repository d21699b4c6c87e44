SPECIFICATION Spec
CONSTANTS
  Jobs <- MCJobs
  MaxStored = 40
  MinBlock = 16
  MAX_CHUNK_LEN = 23
INVARIANTS
  BoundSuffices
  ReadsBack
  DamageNoticed
  InBounds
  ChecksumsAgree
PROPERTIES
  CostExact
  Implements
