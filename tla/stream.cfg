CONSTANTS
  None = None  r = r  c1 = c1
  Worker = worker
  Signallers = {signaller}
  Events = 1
  Results = {r, None}
  Clients = {c1}
  Impatient = {c1}
  FaultLimits <- TwoFaults
SPECIFICATION FairSpec
CHECK_DEADLOCK FALSE
INVARIANTS
  TypeOK
  AnswerIsTrue
  MissedForAReason
PROPERTIES
  InOrderOnce
  TailingIsAnswered
  AnsweredAfterTheEnd
