SPECIFICATION Spec
CONSTANTS
  m1 = m1
  m2 = m2
  w1 = w1
  Base = Base
  None = None
  Models = {m1}
  Writers = {w1}
  Ttl = 1
  StaleTtl = 1
  RetryTtl = 1
  QueryTime = 0
  Attempts = 2
  MaxRev = 0
  MaxHealth = 1
  MaxClock = 0
INVARIANTS
  CooldownSurvives
CHECK_DEADLOCK FALSE
