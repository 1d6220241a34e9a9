CONSTANTS
  MaxStages = 2
  MaxDrawn = 3
  MaxRows = 6
SPECIFICATION Spec
CHECK_DEADLOCK FALSE
PROPERTY
  SaveKeepsDependencies
