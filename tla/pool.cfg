CONSTANTS
  Runs = {r1, r2}
  PoolSize = 1
  MaxAttempts = 2
  MaxDeaths = 2
  Idle = Idle
SPECIFICATION FairSpec
CHECK_DEADLOCK FALSE
INVARIANTS
  TypeOK
  OneBodyPerRun
  DamageBounded
PROPERTIES
  EveryAttemptEnds
