SPECIFICATION Spec
CONSTANTS
  x = x
  y = y
  Handlers = {h1, h2}
  Trans = {t1, t2}
  Slots = {s1, s2, s3}
  Texts = {x, y}
  Amounts = {0, 1}
  Bodies <- MCBodies
  NotGiven = NotGiven
  Empty = Empty
  Missing = Missing
  Removed = Removed
  Unspecified = Unspecified
  NoTrans = NoTrans
  NoSlot = NoSlot
  Dates = {1}
  MaxPuts = 2
  MaxCrashes = 1
CHECK_DEADLOCK FALSE
SYMMETRY Symmetry
PROPERTY ImplementsDocumentStore
INVARIANTS
  TypeOK
  NoForeignData
  RemovedStaysRemoved
  ResultOfTransaction
  WorkSurvivesUpdates
