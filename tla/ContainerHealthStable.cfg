CONSTANTS
  Setups <- MCSetups
  Threshold = 2
  Window = 2
  Cooldown = 2
  OomWindow = 1
  MaxGap = 1
  MaxRestarts = 3
  MaxFaults = 0
SPECIFICATION FairSpec
PROPERTIES
  StableIsResolved
