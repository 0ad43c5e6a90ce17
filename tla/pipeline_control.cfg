SPECIFICATION FairSpec
CONSTANTS
  Handlers = {h1}
  Trans = {t1, t2}
  Slots = {s1}
  NoTrans = NoTrans
  NoSlot = NoSlot
  PoolInit = 1
  Deletable = {t1}
  Faults = {"find", "push"}
  MaxRequests = 2
  MaxCrashes = 1
  Operators = {o1}
  Requests = {"start", "stop", "init", "reset"}
  Nil = Nil
  MaxControls = 3
  MaxTime = 1
CHECK_DEADLOCK FALSE
PROPERTIES
  StoppedListGrows
  AckedProcessed
