SPECIFICATION Spec
CONSTANTS
  k1 = k1
  e1 = e1
  e2 = e2
  i1 = i1
  i2 = i2
  NoReservation = NoReservation
  NoRecord = NoRecord
  Keys = {k1}
  Events = {e1, e2}
  Instances = {i1, i2}
  KeyOf <- OneKey
  Home <- OwnHome
  Ttl = 1
  MaxTicks = 5
  QueueSize = 1
  BatchSize = 2
  Estimates = {2}
  Costs = {1, 3}
  Limits = {0, 1, 3}
  InitialLimit = 3
  Validity = {TRUE}
  MaxClock = 2
  MaxCrashes = 0
  Closable = {}
  CleanupLimit = 1
  Cleaning = {i2}
INVARIANTS
  ReservedMatchesRows
  BudgetKept
PROPERTIES
  OwnCleanerSparesActive
  RowsLeaveForCause
  KeepsPromise
CHECK_DEADLOCK FALSE
