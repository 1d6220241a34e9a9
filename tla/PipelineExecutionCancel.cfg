CONSTANTS
  Builds = 1
  Viewers = {}
  Watched <- MCWatched
  Deployments = 0
  CorePoolSize = 1
  MaxPoolSize = 1
  QueueCapacity = 1
  Faulty = FALSE
  MayCrash = FALSE
SPECIFICATION Spec
CHECK_DEADLOCK FALSE
PROPERTY
  CancelledStays
