CONSTANTS
  Workers = {w1, w2}
  Workflows = {a, b, c}
  WorkerConcurrency = 1
  MaxSignals = 1
  MaxStops = 2
  MaxRaises = 1
  None = None
SPECIFICATION FairSpec
CHECK_DEADLOCK FALSE
INVARIANTS
  TypeOK
  WithinCapacity
  NothingAfterExit
  HeldByOne
PROPERTIES
  EveryoneIsServed
  StopsInTheEnd
