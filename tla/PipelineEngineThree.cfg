CONSTANTS
  N = 3
  GraphChoice = "shapes"
  Graphs <- MCGraphs
  MaxThrows = 0
  MayInterrupt = FALSE
SPECIFICATION Spec
INVARIANTS
  StartsAfterDependencies
  AtMostOneRerun
  ReturnedMeansSettled
  VerdictIsStored
  FailureBlocksDependents
