SPECIFICATION Spec
CONSTANTS
  p1 = p1
  p2 = p2
  s1 = s1
  NoOp = NoOp
  NoCheckpoint = NoCheckpoint
  Primaries <- TwoWorkers
  Secondaries <- NoWorker
  OpLimit = 2
  StopConditions <- Count
  Faulty <- NoWorker
  CanPanic = FALSE
  Checkpointing = FALSE
  Every = 1
  MaxSamples = 1
  DiskFaults = FALSE
INVARIANT ExactCountPerformed
