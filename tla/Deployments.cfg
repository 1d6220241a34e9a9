CONSTANTS
  a = a
  b = b
  Sources <- Two
  Registered = a
  Pollers = {scheduled}
  Jobs = {j1, j2, j3}
  CorePoolSize = 1
  MaxPoolSize = 2
  QueueCapacity = 1
  MaxPushes <- PushesToFirst
  MaxEdits = 1
  MaxFaults = 1
  Merge = Merge
  None = None
SPECIFICATION FairSpec
INVARIANTS
  UpToDateIsDeployed
  SyncedIsDeployed
PROPERTIES
  CatchesUp
CHECK_DEADLOCK FALSE
