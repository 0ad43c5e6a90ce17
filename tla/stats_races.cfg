SPECIFICATION Spec
CONSTANTS
  Handlers = {h1}
  Waiting = TRUE
  Durations = {}
  DataMax = 8
  Unit = 2
  Admin = {"init", "reset"}
  StartTime = 7
  MaxJobs = 2
  MaxCrashes = 2
  MaxAdmin = 1
  MaxTime = 9
CHECK_DEADLOCK FALSE
INVARIANTS
  TypeOK
  WithinMeasured
  Coherent
  SurvivesRestart
