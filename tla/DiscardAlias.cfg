SPECIFICATION CliSpec
CONSTANTS
  mem = mem
  emmc = emmc
  part = part
  old = old
  new = new
  folder = folder
  log = log
  db = db
  Nothing = Nothing
  NoProc = NoProc
  NoDisk = NoDisk
  NoRange = NoRange
  Delayed = Delayed
  Places <- AllPlaces
  Block <- TwoBlock
  Spare <- OnePart
  PresetRuns <- SomePresets
  Saves <- SomeSaves
  MaxFiles = 1
  MaxSessions = 2
  Targets <- WizardTargets
  TargetInfo <- SomeInfo
  Inside <- InFolder
  DefaultTarget <- FirstTarget
  Seeds <- SomeSeeds
  BlockFloor = 2
  BlockMax = 3
  WholeMinimum = 4
  CreateMinimum = 2
  FreeSpace = 5
  UnknownSize = 4
  Pids <- Numbers
  Files <- LogDb
  OpenSets <- SomeOpen
  Hosts <- SomeHosts
  Drives <- AllDrives
  WholeDrives <- Whole
  Plugged <- AtFirst
  Routes <- SomeRoutes
  TopDrives = 3
  MaxTicks = 2
  MaxBytes = 2
  MaxChanges = 2
  Disks <- SomeDisks
  Parent <- SomeParent
  Root = old
  Requests <- SomeRequests
  Unseen <- SomeUnseen
  MaxMounts = 2
  MapFiles <- BothFiles
  Partitions <- TwoParts
  DiskOf <- TheDisk
  StartOf512 <- SomeStart
  UnitOf <- SomeUnit
  Traced = emmc
  MountTables <- SomeTables
  PathOf <- SomePaths
  Layouts <- SomeLayouts
  BlockSectors = 2
  FileSectors <- SomeLengths
  Batch = 1
  Filter <- SomeFilter
INVARIANT OnlyUnmountedDiscarded
CHECK_DEADLOCK FALSE
