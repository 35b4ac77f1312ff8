CONSTANTS
  p = p  c = c  d = d  g = g  a = a  b = b  r1 = r1  r2 = r2  q1 = q1  q2 = q2
  s1 = s1  s2 = s2  w1 = w1
  None = None  Waiting = Waiting  Done = Done  Failed = Failed
  Ids = {p}
  Roots = {p}
  SignalTypes = {g}
  Calls = {a, b}
  Results = {r1}
  Requests = {q1}
  Slots = {s1}
  Workers = {s1}
  Versions = {1}
  WorkerOf <- OneSlotEach
  Program <- TwoActivities
  Registry <- AllRegistered
  SignalTo <- ToParent
  SignalType <- OfTypeG
  MaxFaults <- NoFaults
SPECIFICATION Spec
SYMMETRY Symmetric
CHECK_DEADLOCK FALSE
INVARIANT OneTerminalEvent
