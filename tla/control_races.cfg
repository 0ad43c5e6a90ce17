SPECIFICATION Spec
CONSTANTS
  Handlers = {h1, h2}
  Requests = {"start", "stop", "init", "reset"}
  Nil = Nil
  MaxRequests = 5
  MaxCrashes = 2
  MaxTime = 3
CHECK_DEADLOCK FALSE
SYMMETRY Symmetry
INVARIANTS
  TypeOK
  RestartHeals
  PersistedRequestHolds
  CachedTimesMatchState
