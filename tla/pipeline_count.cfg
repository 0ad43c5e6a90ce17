SPECIFICATION Spec
CONSTANTS
  Handlers = {h1}
  Trans = {t1, t2}
  Slots = {s1, s2}
  NoTrans = NoTrans
  NoSlot = NoSlot
  PoolInit = 1
  Deletable = {t1, t2}
  Faults = {}
  MaxRequests = 2
  MaxCrashes = 1
CHECK_DEADLOCK FALSE
INVARIANT QueueCountsTransactions
