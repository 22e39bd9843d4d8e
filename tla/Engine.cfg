SPECIFICATION FairSpec
CONSTANTS
  p1 = p1
  p2 = p2
  s1 = s1
  NoOp = NoOp
  NoCheckpoint = NoCheckpoint
  Primaries <- TwoWorkers
  Secondaries <- OneSecondary
  OpLimit = 2
  StopConditions <- Either
  Faulty <- OneOfEach
  CanPanic = TRUE
  Checkpointing = TRUE
  Every = 1
  MaxSamples = 2
  DiskFaults = TRUE
INVARIANTS TypeOK OkIsClean IndexAccounting SecondariesCoverPrimaries NothingOutlivesTheRun
INVARIANTS IntervalsTelescope CheckpointsConsistent LastCheckpointSaved
PROPERTIES ImplementsContract Returns CheckpointMovesForward
