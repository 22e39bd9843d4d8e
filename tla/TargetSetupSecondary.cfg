SPECIFICATION Spec
CONSTANTS
  f = f
  d = d
  user = user
  NoSize = NoSize
  Absent = Absent
  Targets <- SomeTargets
  Devices <- SomeDevices
  Sector = 2
  MinFile = 6
  FileLimit = 13
  MaxWord = 15
  Sizes <- SomeSizes
  Sectors <- SomeSectors
  MaxIndex = 7
  Mix <- SomeMix
  Profiles <- SomeProfiles
  Samples <- OneFile
  Partitions <- OnePartition
  Boots <- OneBoot
  SampleSize = 8
  BlockDefault = 4
  WriteSizes <- SomeBlocks
  DataCaps <- SomeCaps
INVARIANT EveryDeviceNeedsConsent
CHECK_DEADLOCK FALSE
