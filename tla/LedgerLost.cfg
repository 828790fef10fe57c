SPECIFICATION Spec
CONSTANTS
  k1 = k1
  e1 = e1
  e2 = e2
  i1 = i1
  i2 = i2
  NoReservation = NoReservation
  NoRecord = NoRecord
  Keys = {k1}
  Events = {e1, e2}
  Instances = {i1}
  KeyOf <- OneKey
  Home <- SameHome
  Ttl = 1
  MaxTicks = 5
  QueueSize = 1
  BatchSize = 2
  Estimates = {2}
  Costs = {1}
  Limits = {3}
  InitialLimit = 3
  Validity = {TRUE}
  MaxClock = 1
  MaxCrashes = 0
  Closable = {}
  CleanupLimit = 1
  Cleaning = {i1}
INVARIANTS
  LostIsObserved
CHECK_DEADLOCK FALSE
