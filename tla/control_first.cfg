SPECIFICATION Spec
CONSTANTS
  Handlers = {h1}
  Requests = {"start", "stop"}
  Nil = Nil
  MaxRequests = 1
  MaxCrashes = 1
  MaxTime = 3
CHECK_DEADLOCK FALSE
INVARIANT NotFirstTimeWasUp
