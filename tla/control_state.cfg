SPECIFICATION Spec
CONSTANTS
  Handlers = {h1, h2}
  Requests = {"start", "stop"}
  Nil = Nil
  MaxRequests = 3
  MaxCrashes = 0
  MaxTime = 3
CHECK_DEADLOCK FALSE
INVARIANT StateIsWorkers
