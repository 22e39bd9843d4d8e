SPECIFICATION FairSpec
CONSTANTS
  Regions = 2
  MaxIntervals = 2
  MaxCommands = 2
  WithHealth = TRUE
  WithSampler = TRUE
  DiskFaults = TRUE
  NoFile = NoFile
  Torn = Torn
INVARIANTS OkIsOnDisk MismatchesAreReported KilledRunKeepsBaselines
PROPERTIES StoredOnlyGrows RunEnds
CHECK_DEADLOCK FALSE
