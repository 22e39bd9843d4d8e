SPECIFICATION Spec
CONSTANTS
  Regions = 1
  MaxIntervals = 0
  MaxCommands = 0
  WithHealth = FALSE
  WithSampler = FALSE
  DiskFaults = FALSE
  NoFile = NoFile
  Torn = Torn
INVARIANT BaselineSurvives
CHECK_DEADLOCK FALSE
