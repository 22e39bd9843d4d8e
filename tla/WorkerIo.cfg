SPECIFICATION Spec
CONSTANTS
  Workers <- TwoWorkers
  Blocks = 2
  OpLimit = 3
  WordBits = 2
  Mix <- SomeMix
  MaxFaults = 2
  NoCadence = NoCadence
  Plans <- SomePlans
INVARIANTS LossIsBounded EndIsDurable CountsAgree
PROPERTY MismatchHasCause
CHECK_DEADLOCK FALSE
