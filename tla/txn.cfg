CONSTANTS
  parent = parent  child = child  go = go  slot1 = slot1  slot2 = slot2  req = req
  Ids = {parent, child}
  SignalTypes = {go}
  Calls = {}
  Results = {}
  Requests = {req}
  Slots = {slot1, slot2}
  None = None  Waiting = Waiting  Done = Done  Failed = Failed
  Existing <- OnlyParent
  Load <- Everything
  Connections = {t1, t2}
  MaxTransactions = 4
SPECIFICATION FairSpec
CHECK_DEADLOCK FALSE
INVARIANTS
  TypeOK
PROPERTIES
  Atomic
  EveryTransactionEnds
