SPECIFICATION Spec
CONSTANTS
  m1 = m1
  m2 = m2
  w1 = w1
  Base = Base
  None = None
  Models = {m1, m2}
  Writers = {w1}
  Ttl = 1
  StaleTtl = 2
  RetryTtl = 1
  QueryTime = 1
  Attempts = 2
  MaxRev = 1
  MaxHealth = 1
  MaxClock = 5
CONSTRAINT Bounds
SYMMETRY Symmetry
INVARIANTS
  TypeOK
  FreshCaches
  AgeBounded
  CooldownKept
CHECK_DEADLOCK FALSE
