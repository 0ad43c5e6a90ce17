SPECIFICATION Spec
CONSTANTS
  Handlers = {h1, h2}
  Nobody = Nobody
  Modulus = 4
  Admin = {"init", "reset", "report"}
  MaxPosts = 2
  MaxAdmin = 1
  MaxCrashes = 2
CHECK_DEADLOCK FALSE
SYMMETRY Symmetry
INVARIANTS
  TypeOK
  NeverMoreThanHappened
  CountersExact
  QueueCountModular
  ReportAddsUp
