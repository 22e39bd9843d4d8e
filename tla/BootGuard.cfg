SPECIFICATION Spec
CONSTANTS
  boot0 = boot0
  boot1 = boot1
  w1 = w1
  w2 = w2
  s1 = s1
  Devices <- BothDevices
  Holders <- ThreeHolders
  DeviceOf <- TwoOnBoot0
  Writers <- OnlySecondary
  MaxRuns = 2
INVARIANTS LockRestored NoSpuriousLock SoleGuardHolds
PROPERTY RefusedLeavesLocked
CHECK_DEADLOCK FALSE
