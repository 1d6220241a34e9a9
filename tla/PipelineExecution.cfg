CONSTANTS
  Builds = 1
  Viewers = {v1}
  Watched <- MCWatched
  Deployments = 3
  CorePoolSize = 1
  MaxPoolSize = 2
  QueueCapacity = 1
  Faulty = TRUE
  MayCrash = TRUE
SPECIFICATION FairSpec
CHECK_DEADLOCK FALSE
INVARIANTS
  OverMeansTerminal
  StagesHaveWorkspace
PROPERTIES
  FinalStatusIsFinal
  AcceptedRunsEnd
  EndReachesPage
