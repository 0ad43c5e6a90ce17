SPECIFICATION Spec
CONSTANTS
  Handlers = {h1}
  Waiting = TRUE
  Durations = {1}
  DataMax = 8
  Unit = 2
  Admin = {}
  StartTime = 1
  MaxJobs = 1
  MaxCrashes = 1
  MaxAdmin = 0
  MaxTime = 2
CHECK_DEADLOCK FALSE
INVARIANT TotalOfMeasured
