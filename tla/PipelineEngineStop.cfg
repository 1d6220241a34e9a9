CONSTANTS
  N = 2
  GraphChoice = "independent"
  Graphs <- MCGraphs
  MaxThrows = 0
  MayInterrupt = FALSE
SPECIFICATION Spec
INVARIANT
  StopOnFailureStops
