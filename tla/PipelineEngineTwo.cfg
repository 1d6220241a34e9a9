CONSTANTS
  N = 2
  GraphChoice = "all"
  Graphs <- MCGraphs
  MaxThrows = 1
  MayInterrupt = TRUE
SPECIFICATION FairSpec
INVARIANTS
  StartsAfterDependencies
  AtMostOneRerun
  ReturnedMeansSettled
  VerdictIsStored
  FailureBlocksDependents
PROPERTIES
  OneThreadPerStage
  Implements
  Terminates
