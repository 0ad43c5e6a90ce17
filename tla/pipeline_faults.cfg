SPECIFICATION Spec
CONSTANTS
  Handlers = {h1, h2}
  Trans = {t1, t2, t3}
  Slots = {s1, s2, s3}
  NoTrans = NoTrans
  NoSlot = NoSlot
  PoolInit = 1
  Deletable = {t1, t2, t3}
  Faults = {"memory", "insert", "find", "push", "result"}
  MaxRequests = 3
  MaxCrashes = 2
CHECK_DEADLOCK FALSE
SYMMETRY Symmetry
PROPERTY ImplementsWorkQueue
INVARIANTS
  TypeOK
  NoLeak
  RequestAccounting
  ProcessedWithinReceived
  NoRework
  KeyNamesUnfinished
  OneOwner
  QueueIsDurable
  NoOrphan
  QueueCountExact
  AckedNotLost
