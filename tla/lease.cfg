CONSTANTS
  Workers = {w1, w2, w3}
  LockDuration = 8
  HeartbeatInterval = 2
  Delay = 1
  Skew = 1
  MaxFailures = 1
SPECIFICATION FairSpec
INVARIANTS
  TypeOK
  OneRunAtATime
PROPERTIES
  AbandonedIsReclaimed
