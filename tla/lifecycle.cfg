SPECIFICATION FairSpec
CONSTANTS
  Signals = {"int", "term"}
  Failures = {"env", "mongo", "ping", "model", "redis", "responses", "trans",
              "worker", "create", "start"}
  Handlers = {h1}
CHECK_DEADLOCK FALSE
PROPERTY EndsWhenTold
INVARIANTS
  TypeOK
  WorkerHasWhatItUses
  ServesReady
  ReleasedOnce
