CONSTANTS
  Hosts = {h1, h2}
  Containers = {k1, k2}
  MaxTasks = 2
  None = None
SPECIFICATION Spec
SYMMETRY MCSymmetry
CHECK_DEADLOCK FALSE
INVARIANTS
  ConsoleTypeOK
  ShowsWhatIsSelected
  OneDashboardTimer
  LogsOfTheView
