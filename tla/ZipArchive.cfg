SPECIFICATION Spec
CONSTANTS
  MAX16 = 3
  MAX32 = 100
  MaxInt = 400
  Entries <- MCEntries
  MaxEntries = 4
INVARIANTS
  DirectoryFound
  RecordsRecovered
  LocalsFound
  Zip64OnlyIfNeeded
  DirectoryFits
