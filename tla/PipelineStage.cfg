CONSTANTS
  M = 3
  MaxRuns = 2
  MaxFaults = 2
SPECIFICATION FairSpec
CHECK_DEADLOCK FALSE
INVARIANTS
  VerdictIsConjunction
  FailureEndsSequence
  ReturnedRowsAgree
PROPERTIES
  StageEnds
  ImplementsStageThread
